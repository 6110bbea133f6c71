-------------------------- MODULE Dispatch_proofs ---------------------------
(* The safety properties of Dispatch, for every number of workers, every   *)
(* pair of channel capacities and every bound.                             *)
EXTENDS MCDispatch, FiniteSetTheorems, TLAPS

\* What the channels and the workers hold after the run has ended: a report that
\* was not cut short left nothing pending, and a worker leaves only an empty
\* channel behind.  NoQueueing needs the second, CompleteReport the first.
ShutdownInv ==
    /\ pc \in {"report", "closed"} => pending = 0 \/ deadlinePassed
    /\ exited # {} => pc = "closed" /\ workCh = <<>>
    /\ \A w \in exited : worker[w] = Idle

\* The inductive invariant.
IInv == TypeOK /\ Conservation /\ BoundedFlight /\ ShutdownInv

-----------------------------------------------------------------------------
LEMMA ConstantFacts ==
    /\ IsFiniteSet(Workers)
    /\ MaxConcurrency \in Nat
    /\ 1 \in 1 .. MaxConcurrency
    /\ MinConcurrency \in 1 .. MaxConcurrency
    /\ Concurrency \in MinConcurrency .. MaxConcurrency
    /\ WorkCap \in Nat /\ ResultCap \in Nat /\ SendBound \in Nat
    /\ MaxConcurrency <= WorkCap /\ MaxConcurrency <= ResultCap
  <1>1. MaxConcurrency \in Nat
    BY DispatchAssumption, FS_CardinalityType DEF MaxConcurrency
  <1>2. QED
    BY <1>1, DispatchAssumption

\* Any set of busy workers is finite and no larger than the set of workers.
LEMMA BusyFinite ==
    /\ IsFiniteSet(Busy)
    /\ Cardinality(Busy) \in Nat
    /\ Cardinality(Busy) <= MaxConcurrency
  <1>1. Busy \in SUBSET Workers
    BY DEF Busy
  <1>2. QED
    BY <1>1, ConstantFacts, FS_Subset, FS_CardinalityType DEF MaxConcurrency

LEMMA TuneInRange ==
    ASSUME TypeOK, TuneConcurrency
    PROVE  currentConcurrency' \in MinConcurrency .. MaxConcurrency
  BY ConstantFacts DEF TypeOK, TuneConcurrency, AtLeast, AtMost

-----------------------------------------------------------------------------
\* Type correctness.
THEOREM TypeCorrect == Spec => []TypeOK
  <1>1. Init => TypeOK
    <2> SUFFICES ASSUME Init PROVE TypeOK
      OBVIOUS
    <2>1. worker \in [Workers -> Request \cup {Idle}]
      BY DEF Init
    <2>2. workCh \in Seq(Request) /\ resultCh \in Seq(Result)
      BY DEF Init
    <2>3. /\ pc = "loop"
          /\ stopCh \in BOOLEAN /\ sigCh \in BOOLEAN /\ listening \in BOOLEAN
          /\ stoppedByUser \in BOOLEAN /\ baseline \in BOOLEAN
          /\ timeLeft \in BOOLEAN /\ deadlinePassed \in BOOLEAN
      BY Zenon DEF Init
    <2>4. /\ desired \in 1 .. MaxConcurrency
          /\ currentConcurrency \in MinConcurrency .. MaxConcurrency
          /\ pending \in Int /\ totalSent \in 0 .. SendBound
          /\ totalDone \in Nat /\ totalErrors \in Nat
      BY ConstantFacts DEF Init
    <2>5. exited \subseteq Workers
      BY DEF Init
    <2>6. QED
      BY <2>1, <2>2, <2>3, <2>4, <2>5 DEF TypeOK
  <1>2. TypeOK /\ [Next]_vars => TypeOK'
    <2> SUFFICES ASSUME TypeOK, [Next]_vars PROVE TypeOK'
      OBVIOUS
    <2> USE DEF TypeOK
    <2>1. CASE BeginIteration
      <3>1. desired' \in 1 .. MaxConcurrency
        BY <2>1, ConstantFacts DEF BeginIteration
      <3>2. stopCh' \in BOOLEAN /\ sigCh' \in BOOLEAN /\ stoppedByUser' \in BOOLEAN
        BY <2>1 DEF BeginIteration, TakeStop, TakeNothing
      <3>3. QED
        BY <2>1, <3>1, <3>2 DEF BeginIteration, chanVars
    <2>2. CASE Dispatch
      <3>1. totalSent + 1 \in Request
        BY <2>2, ConstantFacts DEF Dispatch, Request
      <3>2. workCh' \in Seq(Request)
        BY <2>2, <3>1 DEF Dispatch
      <3>3. QED
        BY <2>2, <3>2, ConstantFacts DEF Dispatch, envVars
    <2>3. CASE EndFill
      BY <2>3 DEF EndFill, chanVars, envVars
    <2>4. CASE IdleRound
      <3>1. stopCh' \in BOOLEAN /\ sigCh' \in BOOLEAN /\ stoppedByUser' \in BOOLEAN
        BY <2>4 DEF IdleRound, TakeStop, TakeNothing
      <3>2. currentConcurrency' \in MinConcurrency .. MaxConcurrency
        BY <2>4, TuneInRange DEF IdleRound
      <3>3. QED
        BY <2>4, <3>1, <3>2 DEF IdleRound, chanVars
    <2>5. CASE WaitRound
      <3>1. stopCh' \in BOOLEAN /\ sigCh' \in BOOLEAN /\ stoppedByUser' \in BOOLEAN
        BY <2>5 DEF WaitRound, TakeResult, TakeStop, TakeNothing
      <3>2. currentConcurrency' \in MinConcurrency .. MaxConcurrency
        BY <2>5, TuneInRange DEF WaitRound
      <3>3. CASE TakeResult
        BY <2>5, <3>1, <3>2, <3>3 DEF WaitRound, TakeResult
      <3>4. CASE UNCHANGED <<pending, totalDone, totalErrors, resultCh>>
        BY <2>5, <3>1, <3>2, <3>4 DEF WaitRound
      <3>5. QED
        BY <2>5, <3>3, <3>4 DEF WaitRound
    <2>6. CASE LeaveLoop
      BY <2>6 DEF LeaveLoop, chanVars, envVars
    <2>7. CASE DrainRound
      <3>1. stopCh' \in BOOLEAN /\ sigCh' \in BOOLEAN /\ stoppedByUser' \in BOOLEAN
        BY <2>7 DEF DrainRound, TakeResult, TakeStop, TakeNothing
      <3>2. CASE TakeResult
        BY <2>7, <3>1, <3>2 DEF DrainRound, TakeResult
      <3>3. CASE UNCHANGED <<pending, totalDone, totalErrors, resultCh>>
        BY <2>7, <3>1, <3>3 DEF DrainRound
      <3>4. QED
        BY <2>7, <3>2, <3>3 DEF DrainRound
    <2>8. CASE EndDrain
      BY <2>8 DEF EndDrain, chanVars, envVars
    <2>9. CASE CloseWorkCh
      BY <2>9 DEF CloseWorkCh, chanVars, envVars
    <2>10. ASSUME NEW w \in Workers, WorkerTake(w) PROVE TypeOK'
      <3>1. Head(workCh) \in Request /\ Tail(workCh) \in Seq(Request)
        BY <2>10 DEF WorkerTake
      <3>2. QED
        BY <2>10, <3>1 DEF WorkerTake, mainVars, envVars
    <2>11. ASSUME NEW w \in Workers, WorkerReply(w) PROVE TypeOK'
      <3>1. worker[w] \in Request
        BY <2>11 DEF WorkerReply
      <3>2. PICK err \in BOOLEAN :
                resultCh' = Append(resultCh, [id |-> worker[w], err |-> err])
        BY <2>11 DEF WorkerReply
      <3>3. [id |-> worker[w], err |-> err] \in Result
        BY <3>1 DEF Result
      <3>4. resultCh' \in Seq(Result)
        BY <3>2, <3>3
      <3>5. worker' \in [Workers -> Request \cup {Idle}]
        BY <2>11 DEF WorkerReply
      <3>6. QED
        BY <2>11, <3>4, <3>5 DEF WorkerReply, mainVars, envVars
    <2>12. ASSUME NEW w \in Workers, WorkerExit(w) PROVE TypeOK'
      BY <2>12 DEF WorkerExit, mainVars, envVars
    <2>13. CASE Environment
      <3>1. UNCHANGED <<mainVars, chanVars>>
        BY <2>13 DEF Environment, TypeStop, Signal, BaselineEnds, BudgetExpires,
                     DrainDeadlinePasses
      <3>2. /\ stopCh' \in BOOLEAN /\ sigCh' \in BOOLEAN /\ listening' \in BOOLEAN
            /\ baseline' \in BOOLEAN /\ timeLeft' \in BOOLEAN
            /\ deadlinePassed' \in BOOLEAN
        BY <2>13 DEF Environment, TypeStop, Signal, BaselineEnds, BudgetExpires,
                     DrainDeadlinePasses
      <3>3. QED
        BY <3>1, <3>2 DEF mainVars, chanVars
    <2>14. CASE Finished \/ UNCHANGED vars
      BY <2>14 DEF Finished, vars, mainVars, chanVars, envVars
    <2> HIDE DEF TypeOK
    <2>15. QED
      BY <2>1, <2>2, <2>3, <2>4, <2>5, <2>6, <2>7, <2>8, <2>9, <2>10, <2>11, <2>12,
         <2>13, <2>14 DEF Next, MainStep, WorkerStep
  <1>3. QED
    BY <1>1, <1>2, PTL DEF Spec

-----------------------------------------------------------------------------
(* How the set of busy workers changes.                                    *)

LEMMA TakeMakesBusy ==
    ASSUME TypeOK, NEW w \in Workers, WorkerTake(w)
    PROVE  Cardinality(Busy') = Cardinality(Busy) + 1
  <1>0. Head(workCh) \in Request
    BY DEF TypeOK, WorkerTake
  <1>1. Head(workCh) # Idle
    BY <1>0, ConstantFacts DEF Request, Idle
  <1>2. Busy' = Busy \cup {w} /\ w \notin Busy
    BY <1>1 DEF TypeOK, WorkerTake, Busy
  <1>3. QED
    BY <1>2, BusyFinite, FS_AddElement

LEMMA ReplyMakesIdle ==
    ASSUME TypeOK, NEW w \in Workers, WorkerReply(w)
    PROVE  Cardinality(Busy') = Cardinality(Busy) - 1
  <1>1. Busy' = Busy \ {w} /\ w \in Busy
    BY DEF TypeOK, WorkerReply, Busy
  <1>2. QED
    BY <1>1, BusyFinite, FS_RemoveElement

\* A result taken from resultCh is one less in flight and one more counted.
LEMMA TakeResultCounts ==
    ASSUME TypeOK, Conservation, TakeResult,
           UNCHANGED <<totalSent, workCh, worker>>
    PROVE  Conservation' /\ pending' = pending - 1 /\ pending > 0
  <1>1. Busy' = Busy
    BY DEF Busy
  <1>2. Len(resultCh) \in Nat \ {0} /\ Len(resultCh') = Len(resultCh) - 1
    BY DEF TypeOK, TakeResult
  <1>3. \/ totalErrors' = totalErrors + 1 /\ totalDone' = totalDone
        \/ totalDone' = totalDone + 1 /\ totalErrors' = totalErrors
    BY DEF TakeResult
  <1>4. Len(workCh) \in Nat
    BY DEF TypeOK
  <1>5. /\ pending \in Int /\ totalSent \in Int /\ totalDone \in Int /\ totalErrors \in Int
        /\ pending' = pending - 1 /\ totalSent' = totalSent /\ workCh' = workCh
    BY DEF TypeOK, TakeResult
  <1>6. Cardinality(Busy') = Cardinality(Busy)
    BY <1>1
  <1>7. pending > 0
    BY <1>2, <1>4, <1>5, BusyFinite, SMTT(30) DEF Conservation
  <1>8. totalSent' = pending' + totalDone' + totalErrors'
    BY <1>3, <1>5 DEF Conservation
  <1>9. pending' = Len(workCh') + Cardinality(Busy') + Len(resultCh')
    <2>1. Cardinality(Busy) \in Nat
      BY BusyFinite
    <2>2. pending = Len(workCh) + Cardinality(Busy) + Len(resultCh)
      BY DEF Conservation
    <2>3. Len(workCh') = Len(workCh)
      BY <1>5
    <2> HIDE DEF Conservation
    <2> QED
      BY <1>2, <1>4, <1>5, <1>6, <2>1, <2>2, <2>3
  <1>10. QED
    BY <1>5, <1>7, <1>8, <1>9 DEF Conservation

\* The counting part of the invariant, action by action.
LEMMA FlightStep ==
    ASSUME TypeOK, Conservation, BoundedFlight, [Next]_vars
    PROVE  Conservation' /\ BoundedFlight'
  <1>1. CASE UNCHANGED <<pending, totalSent, totalDone, totalErrors, workCh,
                         resultCh, worker>>
    BY <1>1 DEF Conservation, BoundedFlight, Busy
  <1>2. CASE Dispatch
    <2>1. Busy' = Busy
      BY <1>2 DEF Dispatch, Busy
    <2>2. Len(workCh') = Len(workCh) + 1
      BY <1>2 DEF Dispatch, TypeOK
    <2>3. Len(workCh) \in Nat /\ Len(resultCh) \in Nat
      BY DEF TypeOK
    <2>4. pending' <= MaxConcurrency
      BY <1>2, ConstantFacts DEF Dispatch, TypeOK
    <2>5. /\ pending \in Int /\ totalSent \in Int /\ totalDone \in Int /\ totalErrors \in Int
          /\ pending' = pending + 1 /\ totalSent' = totalSent + 1
          /\ totalDone' = totalDone /\ totalErrors' = totalErrors /\ resultCh' = resultCh
      BY <1>2 DEF Dispatch, TypeOK
    <2>6. Cardinality(Busy') = Cardinality(Busy)
      BY <2>1
    <2>7. totalSent' = pending' + totalDone' + totalErrors'
      BY <2>5 DEF Conservation
    <2>8. pending' = Len(workCh') + Cardinality(Busy') + Len(resultCh')
      <3>1. pending = Len(workCh) + Cardinality(Busy) + Len(resultCh)
        BY DEF Conservation
      <3>2. QED
        BY <2>2, <2>3, <2>5, <2>6, <3>1, BusyFinite
    <2>9. QED
      BY <2>4, <2>7, <2>8 DEF Conservation, BoundedFlight
  <1>3. CASE TakeResult /\ UNCHANGED <<totalSent, workCh, worker>>
    BY <1>3, TakeResultCounts, ConstantFacts DEF BoundedFlight, TypeOK
  <1>4. ASSUME NEW w \in Workers, WorkerTake(w)
        PROVE  Conservation' /\ BoundedFlight'
    <2>1. Len(workCh') = Len(workCh) - 1 /\ Len(workCh) \in Nat /\ Len(resultCh) \in Nat
      BY <1>4 DEF WorkerTake, TypeOK
    <2>2. UNCHANGED <<pending, totalSent, totalDone, totalErrors, resultCh>>
      BY <1>4 DEF WorkerTake, mainVars
    <2>3. Cardinality(Busy') = Cardinality(Busy) + 1
      BY <1>4, TakeMakesBusy
    <2>4. QED
      BY <2>1, <2>2, <2>3, BusyFinite DEF Conservation, BoundedFlight
  <1>5. ASSUME NEW w \in Workers, WorkerReply(w)
        PROVE  Conservation' /\ BoundedFlight'
    <2>1. worker[w] \in Request
      BY <1>5 DEF WorkerReply, TypeOK
    <2>2. \A err \in BOOLEAN : [id |-> worker[w], err |-> err] \in Result
      BY <2>1 DEF Result
    <2>3. Len(resultCh') = Len(resultCh) + 1 /\ Len(workCh) \in Nat /\ Len(resultCh) \in Nat
      BY <1>5, <2>2 DEF WorkerReply, TypeOK
    <2>4. UNCHANGED <<pending, totalSent, totalDone, totalErrors, workCh>>
      BY <1>5 DEF WorkerReply, mainVars
    <2>5. Cardinality(Busy') = Cardinality(Busy) - 1
      BY <1>5, ReplyMakesIdle
    <2>6. QED
      BY <2>3, <2>4, <2>5, BusyFinite DEF Conservation, BoundedFlight
  <1>6. QED
    <2>1. ASSUME NEW w \in Workers, WorkerExit(w)
          PROVE  Conservation' /\ BoundedFlight'
      BY <1>1, <2>1 DEF WorkerExit, mainVars
    <2>2. CASE WaitRound \/ DrainRound
      BY <1>1, <1>3, <2>2 DEF WaitRound, DrainRound
    <2>3. CASE BeginIteration \/ EndFill \/ IdleRound \/ LeaveLoop \/ EndDrain \/ CloseWorkCh
      BY <1>1, <2>3 DEF BeginIteration, EndFill, IdleRound, LeaveLoop, EndDrain,
                        CloseWorkCh, chanVars
    <2>4. CASE Environment
      BY <1>1, <2>4 DEF Environment, TypeStop, Signal, BaselineEnds, BudgetExpires,
                        DrainDeadlinePasses, mainVars, chanVars
    <2>5. CASE Finished \/ UNCHANGED vars
      BY <1>1, <2>5 DEF Finished, vars, mainVars, chanVars
    <2>6. QED
      BY <1>2, <1>4, <1>5, <2>1, <2>2, <2>3, <2>4, <2>5 DEF Next, MainStep, WorkerStep

\* The shutdown part: the main loop does nothing after it closed workCh, and a
\* worker that has left never takes another request.
LEMMA ShutdownStep ==
    ASSUME TypeOK, Conservation, ShutdownInv, [Next]_vars
    PROVE  ShutdownInv'
  <1>1. CASE UNCHANGED <<pc, pending, workCh, worker, exited>> /\ deadlinePassed' = deadlinePassed
    BY <1>1 DEF ShutdownInv
  <1>2. CASE BeginIteration \/ Dispatch \/ EndFill \/ IdleRound \/ WaitRound
             \/ LeaveLoop
    <2>1. pc \notin {"report", "closed"} /\ pc' \notin {"report", "closed"}
      BY <1>2 DEF BeginIteration, Dispatch, EndFill, IdleRound, WaitRound, LeaveLoop
    <2>2. exited' = exited /\ worker' = worker
      BY <1>2 DEF BeginIteration, Dispatch, EndFill, IdleRound, WaitRound, LeaveLoop,
                  chanVars
    <2>3. exited = {}
      BY <2>1 DEF ShutdownInv
    <2>4. QED
      BY <2>1, <2>2, <2>3 DEF ShutdownInv
  <1>3. CASE DrainRound
    <2>1. pc = "drain" /\ pc' = "drain" /\ exited' = exited /\ worker' = worker
      BY <1>3 DEF DrainRound
    <2>2. QED
      BY <2>1 DEF ShutdownInv
  <1>4. CASE EndDrain \/ CloseWorkCh
    BY <1>4 DEF EndDrain, CloseWorkCh, ShutdownInv, chanVars, envVars
  <1>5. ASSUME NEW w \in Workers, WorkerTake(w)
        PROVE  ShutdownInv'
    <2>1. exited = {}
      BY <1>5 DEF WorkerTake, ShutdownInv
    <2>2. QED
      BY <1>5, <2>1 DEF WorkerTake, ShutdownInv, mainVars, envVars
  <1>6. ASSUME NEW w \in Workers, WorkerReply(w)
        PROVE  ShutdownInv'
    <2>1. \A v \in exited : worker'[v] = Idle
      BY <1>6 DEF WorkerReply, ShutdownInv, TypeOK
    <2>2. QED
      BY <1>6, <2>1 DEF WorkerReply, ShutdownInv, mainVars, envVars
  <1>7. ASSUME NEW w \in Workers, WorkerExit(w)
        PROVE  ShutdownInv'
    BY <1>7 DEF WorkerExit, ShutdownInv, mainVars, envVars
  <1>8. CASE Environment
    <2>1. UNCHANGED <<pc, pending, workCh, worker, exited>>
      BY <1>8 DEF Environment, TypeStop, Signal, BaselineEnds, BudgetExpires,
                  DrainDeadlinePasses, mainVars, chanVars
    <2>2. deadlinePassed => deadlinePassed'
      BY <1>8 DEF Environment, TypeStop, Signal, BaselineEnds, BudgetExpires,
                  DrainDeadlinePasses
    <2>3. QED
      BY <2>1, <2>2 DEF ShutdownInv
  <1>9. CASE Finished \/ UNCHANGED vars
    BY <1>1, <1>9 DEF Finished, vars, mainVars, chanVars, envVars
  <1>10. QED
    BY <1>2, <1>3, <1>4, <1>5, <1>6, <1>7, <1>8, <1>9 DEF Next, MainStep, WorkerStep

-----------------------------------------------------------------------------
\* The inductive invariant holds in every reachable state.
THEOREM Invariance == Spec => []IInv
  <1>1. Init => Conservation /\ BoundedFlight /\ ShutdownInv
    <2> SUFFICES ASSUME Init PROVE Conservation /\ BoundedFlight /\ ShutdownInv
      OBVIOUS
    <2>1. Busy = {} /\ Len(workCh) = 0 /\ Len(resultCh) = 0
      BY DEF Init, Busy, Idle
    <2>2. Cardinality(Busy) = 0
      BY <2>1, FS_EmptySet
    <2>3. pending = 0 /\ totalSent = 0 /\ totalDone = 0 /\ totalErrors = 0
      BY DEF Init
    <2>4. Conservation /\ BoundedFlight
      BY <2>1, <2>2, <2>3, ConstantFacts DEF Conservation, BoundedFlight
    <2>5. ShutdownInv
      BY DEF Init, ShutdownInv
    <2>6. QED
      BY <2>4, <2>5
  <1>2. TypeOK /\ Conservation /\ BoundedFlight /\ ShutdownInv /\ [Next]_vars
          => (Conservation /\ BoundedFlight /\ ShutdownInv)'
    BY FlightStep, ShutdownStep
  <1>3. QED
    BY <1>1, <1>2, TypeCorrect, PTL DEF Spec, IInv

\* The count of pending requests is exactly what is in flight, and every request
\* sent is pending or has been counted once.
THEOREM ConservationHolds == Spec => []Conservation
  <1>1. IInv => Conservation
    BY DEF IInv
  <1>2. QED
    BY <1>1, Invariance, PTL

\* Never more requests in flight than workers, however the target is tuned.
THEOREM BoundedFlightHolds == Spec => []BoundedFlight
  <1>1. IInv => BoundedFlight
    BY DEF IInv
  <1>2. QED
    BY <1>1, Invariance, PTL

\* An idle worker is there for every queued request: pending counts the queued
\* and the busy, and is bounded by the number of workers.
THEOREM NoQueueingHolds == Spec => []NoQueueing
  <1>1. IInv => NoQueueing
    <2> SUFFICES ASSUME IInv PROVE NoQueueing
      OBVIOUS
    <2> DEFINE IdleWorkers == {w \in Workers \ exited : worker[w] = Idle}
    <2>1. IsFiniteSet(IdleWorkers) /\ Cardinality(IdleWorkers) \in Nat
      <3>1. IdleWorkers \in SUBSET Workers
        OBVIOUS
      <3>2. QED
        BY <3>1, ConstantFacts, FS_Subset, FS_CardinalityType
    <2>2. CASE exited # {}
      <3>1. Len(workCh) = 0
        BY <2>2 DEF IInv, ShutdownInv
      <3>2. QED
        BY <2>1, <3>1 DEF NoQueueing
    <2>3. CASE exited = {}
      <3>1. IdleWorkers = Workers \ Busy
        BY <2>3 DEF Busy
      <3>2. Workers \cap Busy = Busy
        BY DEF Busy
      <3>3. Cardinality(IdleWorkers) = MaxConcurrency - Cardinality(Busy)
        BY <3>1, <3>2, ConstantFacts, FS_Difference DEF MaxConcurrency
      <3>4. Len(workCh) \in Nat /\ Len(resultCh) \in Nat
        BY DEF IInv, TypeOK
      <3>5. Len(workCh) + Cardinality(Busy) + Len(resultCh) <= MaxConcurrency
        BY DEF IInv, Conservation, BoundedFlight
      <3>6. Len(workCh) <= Cardinality(IdleWorkers)
        BY <3>3, <3>4, <3>5, ConstantFacts, BusyFinite
      <3>7. QED
        BY <3>6 DEF NoQueueing
    <2>4. QED
      BY <2>2, <2>3
  <1>2. QED
    BY <1>1, Invariance, PTL

\* A worker that has an answer always finds room on resultCh.
THEOREM WorkersNeverBlockHolds == Spec => []WorkersNeverBlock
  <1>1. IInv => WorkersNeverBlock
    <2> SUFFICES ASSUME IInv, Busy # {} PROVE Len(resultCh) < ResultCap
      BY DEF WorkersNeverBlock
    <2>1. Cardinality(Busy) # 0
      BY BusyFinite, FS_EmptySet
    <2>2. Len(workCh) \in Nat /\ Len(resultCh) \in Nat
      BY DEF IInv, TypeOK
    <2>3. Len(workCh) + Cardinality(Busy) + Len(resultCh) <= MaxConcurrency
      BY DEF IInv, Conservation, BoundedFlight
    <2>4. QED
      BY <2>1, <2>2, <2>3, BusyFinite, ConstantFacts
  <1>2. QED
    BY <1>1, Invariance, PTL

\* A report not cut short by the drain deadline accounts for every request.
THEOREM CompleteReportHolds == Spec => []CompleteReport
  <1>1. IInv => CompleteReport
    BY DEF IInv, TypeOK, Conservation, ShutdownInv, CompleteReport
  <1>2. QED
    BY <1>1, Invariance, PTL

-----------------------------------------------------------------------------
(* Dispatch implements RequestLedger, for any number of workers, any        *)
(* capacities and any number of requests.                                  *)

\* A request that was sent is in one place at most: on a channel or with a worker.
OnePlace ==
    /\ \A i, j \in DOMAIN workCh : workCh[i] = workCh[j] => i = j
    /\ \A i, j \in DOMAIN resultCh : resultCh[i].id = resultCh[j].id => i = j
    /\ \A v, w \in Busy : worker[v] = worker[w] => v = w
    /\ \A i \in DOMAIN workCh : \A w \in Busy : workCh[i] # worker[w]
    /\ \A i \in DOMAIN workCh : \A j \in DOMAIN resultCh : workCh[i] # resultCh[j].id
    /\ \A j \in DOMAIN resultCh : \A w \in Busy : resultCh[j].id # worker[w]
    /\ InFlight \subseteq 1 .. totalSent

LInv == TypeOK /\ OnePlace

\* Head and tail of a channel that holds something.
LEMMA HeadTail ==
    ASSUME NEW S, NEW q \in Seq(S), q # <<>>
    PROVE  /\ 1 \in DOMAIN q /\ Head(q) = q[1] /\ Head(q) \in S
           /\ \A i \in DOMAIN Tail(q) : i \in Nat /\ i # 0 /\ i + 1 \in DOMAIN q /\ Tail(q)[i] = q[i + 1]
           /\ \A i \in DOMAIN q : i = 1 \/ (i - 1 \in DOMAIN Tail(q) /\ q[i] = Tail(q)[i - 1])
OBVIOUS

\* A value put on a channel.
LEMMA AppendOne ==
    ASSUME NEW S, NEW q \in Seq(S), NEW x \in S
    PROVE  /\ Len(q) + 1 \in DOMAIN Append(q, x) /\ Append(q, x)[Len(q) + 1] = x
           /\ \A i \in DOMAIN q : i \in DOMAIN Append(q, x) /\ Append(q, x)[i] = q[i]
           /\ \A i \in DOMAIN Append(q, x) : i = Len(q) + 1 \/ i \in DOMAIN q
OBVIOUS

-----------------------------------------------------------------------------
\* A step that moves no request and counts none is none of the ledger.
LEMMA NothingMoves ==
    ASSUME LInv, UNCHANGED <<workCh, resultCh, worker, totalSent, totalDone, totalErrors>>
    PROVE  OnePlace' /\ UNCHANGED <<Status, totalDone + totalErrors>>
BY DEF LInv, OnePlace, InFlight, Status, Busy

\* The main loop's send is the ledger's.
LEMMA DispatchSends ==
    ASSUME LInv, Dispatch
    PROVE  OnePlace' /\ \E r \in Request : Ledger!Send(r)
<1> DEFINE r == totalSent + 1
<1>1. workCh \in Seq(Request) /\ r \in Request /\ totalSent \in Nat
  BY ConstantFacts DEF LInv, TypeOK, Dispatch, Request
<1>2. /\ workCh' = Append(workCh, r) /\ totalSent' = r
      /\ UNCHANGED <<resultCh, worker, totalDone, totalErrors>>
  BY DEF Dispatch
<1>3. r \notin InFlight
  BY <1>1 DEF LInv, OnePlace
<1>4. Busy' = Busy
  BY <1>2 DEF Busy
<1>5. InFlight' = InFlight \cup {r}
  <2>1. {workCh'[i] : i \in DOMAIN workCh'} = {workCh[i] : i \in DOMAIN workCh} \cup {r}
    <3>1. /\ Len(workCh) + 1 \in DOMAIN workCh' /\ workCh'[Len(workCh) + 1] = r
          /\ \A i \in DOMAIN workCh : i \in DOMAIN workCh' /\ workCh'[i] = workCh[i]
          /\ \A i \in DOMAIN workCh' : i = Len(workCh) + 1 \/ i \in DOMAIN workCh
      BY <1>1, <1>2, AppendOne
    <3> HIDE DEF r
    <3> QED
      BY <3>1
  <2> QED
    BY <1>2, <1>4, <2>1 DEF InFlight
<1>6. InFlight' \subseteq 1 .. totalSent'
  <2>1. InFlight \subseteq 1 .. totalSent /\ 1 .. totalSent \subseteq 1 .. r /\ r \in 1 .. r
    BY <1>1 DEF LInv, OnePlace
  <2> HIDE DEF r
  <2> QED
    BY <1>2, <1>5, <2>1
<1>7. /\ \A i, j \in DOMAIN workCh' : workCh'[i] = workCh'[j] => i = j
      /\ \A i \in DOMAIN workCh' : \A w \in Busy : workCh'[i] # worker[w]
      /\ \A i \in DOMAIN workCh' : \A j \in DOMAIN resultCh : workCh'[i] # resultCh[j].id
  <2>1. \A i \in DOMAIN workCh' : (i = Len(workCh) + 1 /\ workCh'[i] = r)
                                  \/ (i \in DOMAIN workCh /\ workCh'[i] = workCh[i])
    BY <1>1, <1>2, AppendOne
  <2>2. /\ \A i \in DOMAIN workCh : workCh[i] # r
        /\ \A w \in Busy : worker[w] # r
        /\ \A j \in DOMAIN resultCh : resultCh[j].id # r
    BY <1>3 DEF InFlight
  <2> HIDE DEF r
  <2> QED
    BY <2>1, <2>2 DEF LInv, OnePlace
<1>8. OnePlace'
  BY <1>2, <1>4, <1>6, <1>7 DEF LInv, OnePlace
<1>9. Ledger!Send(r)
  <2>1. Status[r] = "unsent"
    BY <1>1 DEF Status
  <2>2. Status' = [Status EXCEPT ![r] = "sent"]
    <3>1. \A q \in Request : Status'[q] = IF q = r THEN "sent" ELSE Status[q]
      <4>1. \A q \in Request : q > totalSent' <=> q > totalSent /\ q # r
        BY <1>1, <1>2 DEF Request
      <4>2. r \in InFlight' /\ \A q \in Request : q # r => (q \in InFlight' <=> q \in InFlight)
        BY <1>5
      <4>3. ~(r > totalSent')
        BY <1>1, <1>2
      <4> HIDE DEF r
      <4> QED
        BY <4>1, <4>2, <4>3 DEF Status
    <3>2. Status' = [q \in Request |-> Status'[q]] /\ Status = [q \in Request |-> Status[q]]
      BY DEF Status
    <3> HIDE DEF r
    <3> QED
      BY <1>1, <3>1, <3>2
  <2> QED
    BY <1>2, <2>1, <2>2 DEF Ledger!Send
<1> QED
  BY <1>1, <1>8, <1>9

\* A worker takes a request off workCh, or puts its result on resultCh: for the
\* ledger nothing happens.
LEMMA TakeMoves ==
    ASSUME LInv, NEW w \in Workers, WorkerTake(w)
    PROVE  OnePlace' /\ UNCHANGED <<Status, totalDone + totalErrors>>
<1>1. /\ workCh \in Seq(Request) /\ workCh # <<>> /\ worker \in [Workers -> Request \cup {Idle}]
      /\ 0 \notin Request
  BY DEF LInv, TypeOK, WorkerTake, Request
<1>2. /\ worker' = [worker EXCEPT ![w] = Head(workCh)] /\ workCh' = Tail(workCh)
      /\ UNCHANGED <<resultCh, totalSent, totalDone, totalErrors>>
  BY DEF WorkerTake, mainVars
<1>3. Head(workCh) = workCh[1] /\ 1 \in DOMAIN workCh /\ Head(workCh) \in Request
  BY <1>1, HeadTail
<1>4. /\ w \notin Busy /\ Busy' = Busy \cup {w} /\ worker'[w] = workCh[1]
      /\ \A v \in Busy : worker'[v] = worker[v]
  BY <1>1, <1>2, <1>3 DEF WorkerTake, Busy, Idle
<1>5. \A i \in DOMAIN workCh' : i \in Nat /\ i + 1 \in DOMAIN workCh /\ i + 1 # 1
                                /\ workCh'[i] = workCh[i + 1]
  BY <1>1, <1>2, HeadTail
<1>6. \A i \in DOMAIN workCh : i = 1 \/ (i - 1 \in DOMAIN workCh' /\ workCh[i] = workCh'[i - 1])
  BY <1>1, <1>2, HeadTail
<1>7. InFlight' = InFlight
  <2>1. {workCh[i] : i \in DOMAIN workCh} = {workCh'[i] : i \in DOMAIN workCh'} \cup {workCh[1]}
    BY <1>3, <1>5, <1>6
  <2>2. {worker'[v] : v \in Busy'} = {worker[v] : v \in Busy} \cup {workCh[1]}
    BY <1>4
  <2> QED
    BY <1>2, <2>1, <2>2 DEF InFlight
<1>8. \A i, j \in DOMAIN workCh' : workCh'[i] = workCh'[j] => i = j
  <2> SUFFICES ASSUME NEW i \in DOMAIN workCh', NEW j \in DOMAIN workCh', workCh'[i] = workCh'[j]
               PROVE  i = j
    OBVIOUS
  <2>1. i + 1 = j + 1
    BY <1>5 DEF LInv, OnePlace
  <2> QED
    BY <1>5, <2>1
<1>9. /\ \A u, v \in Busy' : worker'[u] = worker'[v] => u = v
      /\ \A i \in DOMAIN workCh' : \A v \in Busy' : workCh'[i] # worker'[v]
      /\ \A i \in DOMAIN workCh' : \A j \in DOMAIN resultCh' : workCh'[i] # resultCh'[j].id
      /\ \A j \in DOMAIN resultCh' : \A v \in Busy' : resultCh'[j].id # worker'[v]
  BY <1>2, <1>3, <1>4, <1>5 DEF LInv, OnePlace
<1>10. OnePlace'
  BY <1>2, <1>7, <1>8, <1>9 DEF LInv, OnePlace
<1> QED
  BY <1>2, <1>7, <1>10 DEF Status

LEMMA ReplyMoves ==
    ASSUME LInv, NEW w \in Workers, WorkerReply(w)
    PROVE  OnePlace' /\ UNCHANGED <<Status, totalDone + totalErrors>>
<1>1. /\ resultCh \in Seq(Result) /\ worker \in [Workers -> Request \cup {Idle}]
      /\ w \in Busy /\ worker[w] \in Request
  BY DEF LInv, TypeOK, WorkerReply, Busy
<1>2. PICK err \in BOOLEAN :
        /\ resultCh' = Append(resultCh, [id |-> worker[w], err |-> err])
        /\ worker' = [worker EXCEPT ![w] = Idle]
        /\ UNCHANGED <<workCh, totalSent, totalDone, totalErrors>>
  BY DEF WorkerReply, mainVars
<1> DEFINE x == [id |-> worker[w], err |-> err]
<1>3. x \in Result /\ x.id = worker[w]
  BY <1>1 DEF Result
<1> HIDE DEF x
<1>4. Busy' = Busy \ {w} /\ \A v \in Busy' : worker'[v] = worker[v]
  BY <1>1, <1>2 DEF Busy
<1>5. /\ Len(resultCh) + 1 \in DOMAIN resultCh' /\ resultCh'[Len(resultCh) + 1].id = worker[w]
      /\ \A i \in DOMAIN resultCh : i \in DOMAIN resultCh' /\ resultCh'[i] = resultCh[i]
      /\ \A i \in DOMAIN resultCh' : i = Len(resultCh) + 1 \/ i \in DOMAIN resultCh
  BY <1>1, <1>2, <1>3, AppendOne DEF x
<1>6. InFlight' = InFlight
  <2>1. {resultCh'[i].id : i \in DOMAIN resultCh'} = {resultCh[i].id : i \in DOMAIN resultCh} \cup {worker[w]}
    BY <1>5
  <2>2. {worker[v] : v \in Busy} = {worker'[v] : v \in Busy'} \cup {worker[w]}
    BY <1>1, <1>4
  <2> QED
    BY <1>2, <2>1, <2>2 DEF InFlight
<1>7. /\ \A i, j \in DOMAIN resultCh' : resultCh'[i].id = resultCh'[j].id => i = j
      /\ \A u, v \in Busy' : worker'[u] = worker'[v] => u = v
      /\ \A i \in DOMAIN workCh' : \A v \in Busy' : workCh'[i] # worker'[v]
      /\ \A i \in DOMAIN workCh' : \A j \in DOMAIN resultCh' : workCh'[i] # resultCh'[j].id
      /\ \A j \in DOMAIN resultCh' : \A v \in Busy' : resultCh'[j].id # worker'[v]
  BY <1>1, <1>2, <1>4, <1>5 DEF LInv, OnePlace
<1>8. OnePlace'
  BY <1>2, <1>6, <1>7 DEF LInv, OnePlace
<1> QED
  BY <1>2, <1>6, <1>8 DEF Status

\* The main loop's taking of a result is the ledger's answer.
LEMMA ResultAnswers ==
    ASSUME LInv, TakeResult, UNCHANGED <<totalSent, workCh, worker>>
    PROVE  OnePlace' /\ \E r \in Request : Ledger!Answer(r)
<1> DEFINE r == resultCh[1].id
<1>1. resultCh \in Seq(Result) /\ resultCh # <<>> /\ resultCh' = Tail(resultCh)
      /\ totalDone \in Nat /\ totalErrors \in Nat /\ totalSent \in Nat
  BY ConstantFacts DEF LInv, TypeOK, TakeResult
<1>2. 1 \in DOMAIN resultCh /\ Head(resultCh) = resultCh[1] /\ r \in Request
  <2>1. 1 \in DOMAIN resultCh /\ Head(resultCh) = resultCh[1] /\ resultCh[1] \in Result
    BY <1>1, HeadTail
  <2> QED
    BY <2>1 DEF Result
<1>3. \A i \in DOMAIN resultCh' : i \in Nat /\ i + 1 \in DOMAIN resultCh /\ i + 1 # 1
                                  /\ resultCh'[i] = resultCh[i + 1]
  BY <1>1, HeadTail
<1>4. \A i \in DOMAIN resultCh : i = 1 \/ (i - 1 \in DOMAIN resultCh' /\ resultCh[i] = resultCh'[i - 1])
  BY <1>1, HeadTail
<1>5. Busy' = Busy
  BY DEF Busy
<1>6. InFlight' = InFlight \ {r} /\ r \in InFlight
  <2>1. {resultCh[i].id : i \in DOMAIN resultCh} = {resultCh'[i].id : i \in DOMAIN resultCh'} \cup {r}
    BY <1>2, <1>3, <1>4
  <2>2. r \notin {resultCh'[i].id : i \in DOMAIN resultCh'}
    BY <1>2, <1>3 DEF LInv, OnePlace
  <2>3. r \notin {workCh[i] : i \in DOMAIN workCh} /\ r \notin {worker[w] : w \in Busy}
    BY <1>2 DEF LInv, OnePlace
  <2> HIDE DEF r
  <2> QED
    BY <1>5, <2>1, <2>2, <2>3 DEF InFlight
<1>7. \A i, j \in DOMAIN resultCh' : resultCh'[i].id = resultCh'[j].id => i = j
  <2> SUFFICES ASSUME NEW i \in DOMAIN resultCh', NEW j \in DOMAIN resultCh',
                      resultCh'[i].id = resultCh'[j].id
               PROVE  i = j
    OBVIOUS
  <2>1. i + 1 = j + 1
    BY <1>3 DEF LInv, OnePlace
  <2> QED
    BY <1>3, <2>1
<1>8. /\ \A i \in DOMAIN workCh' : \A j \in DOMAIN resultCh' : workCh'[i] # resultCh'[j].id
      /\ \A j \in DOMAIN resultCh' : \A w \in Busy' : resultCh'[j].id # worker'[w]
  BY <1>3, <1>5 DEF LInv, OnePlace
<1>9. OnePlace'
  BY <1>5, <1>6, <1>7, <1>8 DEF LInv, OnePlace
<1>10. Ledger!Answer(r)
  <2>1. r \in 1 .. totalSent
    BY <1>6 DEF LInv, OnePlace
  <2> HIDE DEF r
  <2>2. Status[r] = "sent"
    BY <1>1, <1>2, <1>6, <2>1 DEF Status
  <2>3. Status' = [Status EXCEPT ![r] = "answered"]
    <3>1. \A q \in Request : Status'[q] = IF q = r THEN "answered" ELSE Status[q]
      <4>1. ~(r > totalSent)
        BY <1>1, <2>1
      <4> QED
        BY <1>6, <4>1 DEF Status
    <3>2. Status' = [q \in Request |-> Status'[q]] /\ Status = [q \in Request |-> Status[q]]
      BY DEF Status
    <3> QED
      BY <1>2, <3>1, <3>2
  <2>4. (totalDone + totalErrors)' = (totalDone + totalErrors) + 1
    BY <1>1 DEF TakeResult
  <2> QED
    BY <2>2, <2>3, <2>4 DEF Ledger!Answer
<1> QED
  BY <1>2, <1>9, <1>10

-----------------------------------------------------------------------------
LEMMA InitLedger == Init => OnePlace /\ Ledger!LedgerInit
<1> SUFFICES ASSUME Init PROVE OnePlace /\ Ledger!LedgerInit
  OBVIOUS
<1>2. workCh = <<>> /\ resultCh = <<>> /\ Busy = {} /\ totalSent = 0 /\ totalDone = 0
       /\ totalErrors = 0
  BY DEF Init, Busy
<1>3. InFlight = {}
  BY <1>2 DEF InFlight
<1>4. OnePlace
  BY <1>2, <1>3 DEF OnePlace
<1>5. Ledger!LedgerInit
  BY <1>2 DEF Ledger!LedgerInit, Status, Request
<1> QED
  BY <1>4, <1>5

LEMMA StepLedger ==
    ASSUME LInv, [Next]_vars
    PROVE  OnePlace' /\ [Ledger!LedgerNext]_Ledger!ledger
<1>1. CASE Dispatch
  BY <1>1, DispatchSends DEF Ledger!LedgerNext
<1>2. CASE \E w \in Workers : WorkerTake(w) \/ WorkerReply(w)
  BY <1>2, TakeMoves, ReplyMoves DEF Ledger!ledger
<1>3. CASE TakeResult /\ UNCHANGED <<totalSent, workCh, worker>>
  BY <1>3, ResultAnswers DEF Ledger!LedgerNext
<1>4. CASE UNCHANGED <<workCh, resultCh, worker, totalSent, totalDone, totalErrors>>
  BY <1>4, NothingMoves DEF Ledger!ledger
<1>5. CASE MainStep
  <2>1. CASE WaitRound \/ DrainRound
    BY <1>3, <1>4, <2>1 DEF WaitRound, DrainRound
  <2>2. CASE BeginIteration \/ EndFill \/ IdleRound \/ LeaveLoop \/ EndDrain \/ CloseWorkCh
    BY <1>4, <2>2 DEF BeginIteration, EndFill, IdleRound, LeaveLoop, EndDrain, CloseWorkCh,
                      chanVars
  <2> QED
    BY <1>1, <1>5, <2>1, <2>2 DEF MainStep
<1>6. CASE \E w \in Workers : WorkerExit(w)
  BY <1>4, <1>6 DEF WorkerExit, mainVars
<1>7. CASE Environment
  BY <1>4, <1>7 DEF Environment, TypeStop, Signal, BaselineEnds, BudgetExpires,
                    DrainDeadlinePasses, mainVars, chanVars
<1>8. CASE Finished \/ UNCHANGED vars
  BY <1>4, <1>8 DEF Finished, vars, mainVars, chanVars
<1> QED
  BY <1>2, <1>5, <1>6, <1>7, <1>8 DEF Next, WorkerStep

\* The detailed dispatcher implements the ledger: every request is sent once,
\* answered at most once, and the number the run reports is the number answered,
\* however loop, workers, stops and clock interleave (mainLoop, worker.go).
THEOREM LedgerImplemented == Spec => ImplementsLedger
<1>1. TypeOK /\ TypeOK' /\ OnePlace /\ [Next]_vars => OnePlace' /\ [Ledger!LedgerNext]_Ledger!ledger
  BY StepLedger DEF LInv
<1>2. Init => OnePlace /\ Ledger!LedgerInit
  BY InitLedger
<1>3. Spec => []TypeOK
  BY TypeCorrect
<1> QED
  BY <1>1, <1>2, <1>3, PTL DEF Spec, ImplementsLedger, Ledger!LedgerSpec
=============================================================================
