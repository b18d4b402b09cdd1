------------------------- MODULE KronosLifecycleProofs -------------------------
(***************************************************************************)
(* Proofs about KronosLifecycle for every set of control calls and of       *)
(* inference threads.                                                      *)
(*                                                                         *)
(* The three safety invariants are not inductive.  OneOwner adds that an    *)
(* action is in one place only (being submitted, queued or with the         *)
(* worker), HoldsTarget that desired is the target of the action under way *)
(* until its finally, and RevertGround what a failing worker knows when it *)
(* is about to put desired back.                                           *)
(***************************************************************************)
EXTENDS KronosLifecycle, FiniteSetTheorems, TLAPS

Busy == workerPc \in {"body", "revert", "finally"}

OneOwner ==
  /\ workerPc = "idle" <=> current = NoOne
  /\ \A c \in pending : callPc[c] # "accepted"
  /\ Busy => current \notin pending /\ callPc[current] # "accepted"

HoldsTarget ==
  operation # NoOne /\ workerPc # "finally" =>
    desired = Target(action[operation])

RevertGround ==
  workerPc = "revert" =>
    \/ result = "E_UNLOAD_FAILED" /\ action[current] = "stop" /\ loaded
    \/ result = "E_UNAVAILABLE" /\ action[current] = "restore"

IInv ==
  /\ TypeOK
  /\ SingleFlight
  /\ ServingWhenIdle
  /\ FailureLanding
  /\ OneOwner
  /\ HoldsTarget
  /\ RevertGround

-------------------------------------------------------------------------------
LEMMA InitIInv == Init => IInv
<1> SUFFICES ASSUME Init PROVE IInv
  OBVIOUS
<1>1. TypeOK
  BY NoOneIsNobody DEF Init, TypeOK, Running, Stopped, Actions, Replies,
     Results, Failures, LogLines
<1>2. SingleFlight
  BY DEF Init, SingleFlight, InFlight
<1> QED
  BY <1>1, <1>2 DEF Init, IInv, ServingWhenIdle, FailureLanding, OneOwner, Busy,
     HoldsTarget, RevertGround

\* The type part of the induction step, from the theorem's own step.
LEMMA TypeStep == TypeOK /\ [Next]_vars => TypeOK'
<1> USE NoOneIsNobody DEF TypeOK, Running, Stopped, Actions, Replies, Results,
                          Failures, LogLines
<1> SUFFICES ASSUME TypeOK, [Next]_vars PROVE TypeOK'
  OBVIOUS
<1> USE DEF controllerVars, callVars, modelVars, workerVars
<1>1. ASSUME NEW c \in Calls, CallNext(c) PROVE TypeOK'
  BY <1>1 DEF CallNext, Refuse, Accept, Submit, Expire, RegisterTimeout, Target
<1>2. ASSUME NEW c \in Calls, WorkerStart(c) PROVE TypeOK'
  BY <1>2 DEF WorkerStart
<1>3. CASE WorkerUnload
  BY <1>3 DEF WorkerUnload, Outcome
<1>4. CASE WorkerLoad
  BY <1>4 DEF WorkerLoad, Outcome
<1>5. CASE WorkerRevert
  BY <1>5 DEF WorkerRevert
<1>6. CASE WorkerFinally
  BY <1>6 DEF WorkerFinally
<1>7. CASE WorkerReturn
  BY <1>7 DEF WorkerReturn
<1>8. ASSUME NEW p \in Predicts, PredictNext(p) PROVE TypeOK'
  BY <1>8 DEF PredictNext, Admit, Infer, LoadFails, InferDone
<1>9. CASE UNCHANGED vars
  BY <1>9 DEF vars
<1> QED
  BY <1>1, <1>2, <1>3, <1>4, <1>5, <1>6, <1>7, <1>8, <1>9 DEF Next, WorkerStep

\* While the worker is busy, the operation is the worker's.
LEMMA BusyOwns == IInv /\ Busy => current \in Calls /\ operation = current
  BY NoOneIsNobody DEF IInv, TypeOK, OneOwner, Busy, SingleFlight, InFlight

LEMMA StepIInv == IInv /\ [Next]_vars => IInv'
<1> SUFFICES ASSUME IInv, [Next]_vars PROVE IInv'
  OBVIOUS
<1>t. TypeOK'
  BY TypeStep DEF IInv
<1> USE NoOneIsNobody DEF IInv, controllerVars, callVars, modelVars, workerVars
<1>1. ASSUME NEW c \in Calls, CallNext(c) PROVE IInv'
  <2>1. CASE Refuse(c) \/ Expire(c) \/ RegisterTimeout(c)
    <3>1. /\ \A d \in Calls : (callPc'[d] = "accepted") <=> (callPc[d] = "accepted")
          /\ UNCHANGED <<desired, operation, action, pending, workerPc, current,
                         result, loaded>>
      BY <2>1 DEF Refuse, Expire, RegisterTimeout, TypeOK
    <3>2. InFlight' = InFlight
      BY <3>1 DEF InFlight
    <3> QED
      BY <1>t, <3>1, <3>2 DEF TypeOK, SingleFlight, ServingWhenIdle,
         FailureLanding, OneOwner, Busy, HoldsTarget, RevertGround
  <2>2. ASSUME NEW a \in Actions, Accept(c, a) PROVE IInv'
    <3>1. InFlight = {} /\ InFlight' = {c}
      BY <2>2 DEF Accept, SingleFlight, InFlight, TypeOK
    <3>2. ~Busy
      BY <3>1 DEF InFlight, Busy
    <3>3. action'[c] = a
      BY <2>2 DEF Accept, TypeOK
    <3>4. \A d \in Calls \ {c} : callPc'[d] = callPc[d]
      BY <2>2 DEF Accept, TypeOK
    <3>5. SingleFlight' /\ ServingWhenIdle'
      BY <2>2, <3>1 DEF Accept, SingleFlight, ServingWhenIdle
    <3>6. FailureLanding' /\ OneOwner' /\ RevertGround'
      BY <2>2, <3>1, <3>2, <3>4 DEF Accept, FailureLanding, OneOwner,
         RevertGround, Busy, InFlight, TypeOK
    <3>7. HoldsTarget'
      BY <2>2, <3>3 DEF Accept, HoldsTarget
    <3> QED
      BY <1>t, <3>5, <3>6, <3>7
  <2>3. CASE Submit(c)
    <3>1. InFlight' = InFlight
      BY <2>3 DEF Submit, InFlight, TypeOK
    <3>2. OneOwner'
      BY <2>3 DEF Submit, OneOwner, Busy, TypeOK
    <3> QED
      BY <1>t, <2>3, <3>1, <3>2 DEF Submit, SingleFlight, ServingWhenIdle,
         FailureLanding, HoldsTarget, RevertGround
  <2> QED
    BY <1>1, <2>1, <2>2, <2>3 DEF CallNext
<1>2. ASSUME NEW c \in Calls, WorkerStart(c) PROVE IInv'
  <2>1. InFlight' = InFlight
    BY <1>2 DEF WorkerStart, InFlight, TypeOK
  <2>2. OneOwner'
    BY <1>2 DEF WorkerStart, OneOwner, Busy, TypeOK
  <2> QED
    BY <1>t, <1>2, <2>1, <2>2 DEF WorkerStart, SingleFlight, ServingWhenIdle,
       FailureLanding, HoldsTarget, RevertGround
<1>3. ASSUME WorkerUnload \/ WorkerLoad PROVE IInv'
  <2>1. operation = current /\ current \in Calls
    BY <1>3, BusyOwns DEF WorkerUnload, WorkerLoad, Busy
  <2>2. desired = Target(action[current])
    BY <1>3, <2>1 DEF HoldsTarget, WorkerUnload, WorkerLoad
  <2>3. InFlight' = InFlight
    BY <1>3 DEF WorkerUnload, WorkerLoad, Outcome, InFlight
  <2>4. OneOwner'
    BY <1>3, <2>1 DEF WorkerUnload, WorkerLoad, Outcome, OneOwner, Busy
  <2>5. FailureLanding'
    BY <1>3, <2>2 DEF WorkerUnload, WorkerLoad, Outcome, FailureLanding, Target,
       Running, Stopped
  <2>6. HoldsTarget' /\ RevertGround'
    BY <1>3, <2>1, <2>2 DEF WorkerUnload, WorkerLoad, Outcome, HoldsTarget,
       RevertGround
  <2> QED
    BY <1>t, <1>3, <2>1, <2>3, <2>4, <2>5, <2>6 DEF WorkerUnload, WorkerLoad,
       Outcome, SingleFlight, ServingWhenIdle
<1>4. ASSUME WorkerRevert PROVE IInv'
  <2>1. operation = current /\ current \in Calls
    BY <1>4, BusyOwns DEF WorkerRevert, Busy
  <2>2. InFlight' = InFlight
    BY <1>4 DEF WorkerRevert, InFlight
  <2>3. FailureLanding'
    BY <1>4 DEF WorkerRevert, FailureLanding, RevertGround, Running, Stopped
  <2> QED
    BY <1>t, <1>4, <2>1, <2>2, <2>3 DEF WorkerRevert, SingleFlight, OneOwner,
       Busy, ServingWhenIdle, HoldsTarget, RevertGround
<1>5. ASSUME WorkerFinally PROVE IInv'
  <2>1. operation = current /\ current \in Calls
    BY <1>5, BusyOwns DEF WorkerFinally, Busy
  <2>2. InFlight' = {}
    BY <1>5, <2>1 DEF WorkerFinally, SingleFlight, InFlight, OneOwner, Busy
  <2>3. ServingWhenIdle'
    BY <1>5, <2>1 DEF WorkerFinally, ServingWhenIdle, FailureLanding, Target,
       Running, Stopped, TypeOK, Actions, Results, Failures
  <2> QED
    BY <1>t, <1>5, <2>1, <2>2, <2>3 DEF WorkerFinally, SingleFlight,
       FailureLanding, OneOwner, Busy, HoldsTarget, RevertGround
<1>6. ASSUME WorkerReturn PROVE IInv'
  <2>1. \A d \in Calls : (callPc'[d] = "accepted") <=> (callPc[d] = "accepted")
    BY <1>6 DEF WorkerReturn, TypeOK
  <2>2. InFlight' = InFlight
    BY <1>6, <2>1 DEF WorkerReturn, InFlight
  <2> QED
    BY <1>t, <1>6, <2>1, <2>2 DEF WorkerReturn, TypeOK, SingleFlight,
       ServingWhenIdle, FailureLanding, OneOwner, Busy, HoldsTarget, RevertGround
<1>7. ASSUME NEW p \in Predicts, PredictNext(p) PROVE IInv'
  <2>1. /\ UNCHANGED <<desired, operation, callPc, action, pending, workerPc,
                       current, result>>
        /\ loaded => loaded'
    BY <1>7 DEF PredictNext, Admit, Infer, LoadFails, InferDone
  <2>2. InFlight' = InFlight
    BY <2>1 DEF InFlight
  <2>3. FailureLanding'
    BY <2>1 DEF FailureLanding, Target
  <2>4. OneOwner' /\ HoldsTarget' /\ RevertGround'
    BY <2>1 DEF OneOwner, Busy, HoldsTarget, RevertGround
  <2> QED
    BY <1>t, <2>1, <2>2, <2>3, <2>4 DEF SingleFlight, ServingWhenIdle
<1>8. CASE UNCHANGED vars
  BY <1>t, <1>8 DEF vars, SingleFlight, InFlight, ServingWhenIdle,
     FailureLanding, OneOwner, Busy, HoldsTarget, RevertGround
<1> QED
  BY <1>1, <1>2, <1>3, <1>4, <1>5, <1>6, <1>7, <1>8 DEF Next, WorkerStep

\* The types of all variables hold in every reachable state.
THEOREM TypeCorrect == Spec => []TypeOK
<1>1. Init => TypeOK
  BY InitIInv DEF IInv
<1> QED
  BY <1>1, TypeStep, PTL DEF Spec

\* The strengthened invariant is inductive.
THEOREM Inductive == Spec => []IInv
  BY InitIInv, StepIInv, PTL DEF Spec

\* Whatever the interleaving, at most one lifecycle action is under way and it
\* is the one _operation names.
THEOREM SingleFlightHolds == Spec => []SingleFlight
<1>1. IInv => SingleFlight
  BY DEF IInv
<1> QED
  BY <1>1, Inductive, PTL

\* With no action in flight, a service that should be running has its model.
THEOREM ServingWhenIdleHolds == Spec => []ServingWhenIdle
<1>1. IInv => ServingWhenIdle
  BY DEF IInv
<1> QED
  BY <1>1, Inductive, PTL

\* Every failed action clears operation in the state its failure row allows.
THEOREM FailureLandingHolds == Spec => []FailureLanding
<1>1. IInv => FailureLanding
  BY DEF IInv
<1> QED
  BY <1>1, Inductive, PTL
-------------------------------------------------------------------------------
(* An action under way comes to its end.                                   *)

LockInv == \A p \in Predicts : predictPc[p] = "infer" <=> modelLock = p

LEMMA StepLockInv == TypeOK /\ LockInv /\ [Next]_vars => LockInv'
<1> SUFFICES ASSUME TypeOK, LockInv, [Next]_vars PROVE LockInv'
  OBVIOUS
<1> USE NoOneIsNobody DEF LockInv
<1>1. ASSUME NEW c \in Calls, CallNext(c) \/ WorkerStart(c) PROVE LockInv'
  BY <1>1 DEF CallNext, Refuse, Accept, Submit, Expire, RegisterTimeout, WorkerStart,
     modelVars
<1>2. CASE WorkerStep
  BY <1>2 DEF WorkerStep, WorkerUnload, WorkerLoad, WorkerRevert, WorkerFinally,
     WorkerReturn, Outcome, modelVars
<1>3. ASSUME NEW p \in Predicts, PredictNext(p) PROVE LockInv'
  BY <1>3 DEF PredictNext, Admit, Infer, LoadFails, InferDone, modelVars, TypeOK
<1>4. CASE UNCHANGED vars
  BY <1>4 DEF vars
<1> QED
  BY <1>1, <1>2, <1>3, <1>4 DEF Next

\* At every moment of an action the thread that has to go on can: the caller, the
\* worker, or the one inference that holds the lock (lifecycle.py:193-203).
THEOREM NeverStuckHolds == Spec => []NeverStuck
<1>1. Init => LockInv
  BY NoOneIsNobody DEF Init, LockInv
<1>2. IInv /\ LockInv => NeverStuck
  <2> SUFFICES ASSUME IInv, LockInv, operation # NoOne
               PROVE  \/ callPc[operation] = "accepted"
                      \/ operation \in pending /\ workerPc = "idle"
                      \/ workerPc \in {"revert", "finally", "return"}
                      \/ /\ workerPc = "body"
                         /\ modelLock = NoOne \/ predictPc[modelLock] = "infer"
    BY DEF NeverStuck, LockInv
  <2>1. operation \in InFlight
    BY DEF IInv, SingleFlight
  <2>2. workerPc \in {"idle", "body", "revert", "finally", "return"}
    BY DEF IInv, TypeOK
  <2>3. modelLock = NoOne \/ predictPc[modelLock] = "infer"
    BY DEF IInv, TypeOK, LockInv
  <2> QED
    BY <2>1, <2>2, <2>3 DEF InFlight
<1>3. IInv => TypeOK
  BY DEF IInv
<1> QED
  BY <1>1, <1>2, <1>3, StepLockInv, Inductive, PTL DEF Spec

LEMMA FirstDifference ==
  ASSUME NEW x, NEW y,
         \/ x[1] < y[1]
         \/ x[1] = y[1] /\ x[2] < y[2]
         \/ x[1] = y[1] /\ x[2] = y[2] /\ x[3] < y[3]
         \/ x[1] = y[1] /\ x[2] = y[2] /\ x[3] = y[3] /\ x[4] < y[4]
  PROVE  Smaller(x, y)
<1>1. CASE x[1] < y[1]
  <2>1. x[1] < y[1] /\ \A k \in 1..(1 - 1) : x[k] = y[k]
    BY <1>1
  <2> QED
    BY <2>1 DEF Smaller
<1>2. CASE x[1] = y[1] /\ x[2] < y[2]
  <2>1. x[2] < y[2] /\ \A k \in 1..(2 - 1) : x[k] = y[k]
    BY <1>2
  <2> QED
    BY <2>1 DEF Smaller
<1>3. CASE x[1] = y[1] /\ x[2] = y[2] /\ x[3] < y[3]
  <2>1. x[3] < y[3] /\ \A k \in 1..(3 - 1) : x[k] = y[k]
    BY <1>3
  <2> QED
    BY <2>1 DEF Smaller
<1>4. CASE x[1] = y[1] /\ x[2] = y[2] /\ x[3] = y[3] /\ x[4] < y[4]
  <2>1. x[4] < y[4] /\ \A k \in 1..(4 - 1) : x[k] = y[k]
    BY <1>4
  <2> QED
    BY <2>1 DEF Smaller
<1> QED
  BY <1>1, <1>2, <1>3, <1>4

\* An inference that leaves a place leaves one fewer there.
LEMMA DrainFalls ==
  ASSUME IsFiniteSet(Predicts), TypeOK, NEW p \in Predicts, NEW from, NEW to,
         predictPc[p] = from, to # from,
         predictPc' = [predictPc EXCEPT ![p] = to],
         desired = Stopped, desired' = desired
  PROVE  /\ Draining(from)' < Draining(from)
         /\ \A at : at \notin {from, to} => Draining(at)' = Draining(at)
<1> DEFINE In(at) == {q \in Predicts : predictPc[q] = at}
<1>1. \A q \in Predicts : predictPc'[q] = IF q = p THEN to ELSE predictPc[q]
  BY DEF TypeOK
<1>2. In(from)' = In(from) \ {p}
  BY <1>1
<1>3. IsFiniteSet(In(from)) /\ p \in In(from)
  BY FS_Subset
<1>4. /\ Cardinality(In(from) \ {p}) = Cardinality(In(from)) - 1
      /\ Cardinality(In(from)) \in Nat
  BY <1>3, FS_RemoveElement, FS_CardinalityType
<1>5. \A at : at \notin {from, to} => In(at)' = In(at)
  BY <1>1
<1>6. ASSUME NEW at
      PROVE  Draining(at) = Cardinality(In(at)) /\ Draining(at)' = Cardinality(In(at)')
  BY Zenon DEF Draining
<1> HIDE DEF In
<1> QED
  BY <1>2, <1>4, <1>5, <1>6

\* An inference that drains leaves "admitted" or "infer", and comes back to neither
\* except from the first to the second.
LEMMA PredictFalls ==
  ASSUME IsFiniteSet(Predicts), TypeOK, NEW p \in Predicts, PredictNext(p),
         desired = Stopped
  PROVE  \/ Draining("admitted")' < Draining("admitted")
         \/ /\ Draining("admitted")' = Draining("admitted")
            /\ Draining("infer")' < Draining("infer")
<1>1. CASE Infer(p)
  BY <1>1, DrainFalls DEF Infer, controllerVars
<1>2. CASE LoadFails(p)
  BY <1>2, DrainFalls DEF LoadFails, controllerVars
<1>3. CASE InferDone(p)
  <2>1. /\ predictPc[p] = "infer" /\ predictPc' = [predictPc EXCEPT ![p] = "idle"]
        /\ desired' = desired
    BY <1>3 DEF InferDone, controllerVars
  <2>2. /\ Draining("infer")' < Draining("infer")
        /\ \A at : at \notin {"infer", "idle"} => Draining(at)' = Draining(at)
    BY <2>1, DrainFalls
  <2>3. Draining("admitted")' = Draining("admitted")
    BY <2>2
  <2> QED
    BY <2>2, <2>3
<1> QED
  BY <1>1, <1>2, <1>3 DEF PredictNext, Admit, Running, Stopped

\* What the invariant says of a stop under way.
LEMMA StopUnderWay ==
  ASSUME IInv, NEW c \in Calls, operation = c, action[c] = "stop"
  PROVE  /\ \A d \in Calls : callPc[d] = "accepted" \/ d \in pending => d = c
         /\ callPc[c] = "accepted" => c \notin pending
         /\ Busy => current = c /\ c \notin pending /\ callPc[c] # "accepted"
         /\ ~Busy => callPc[c] = "accepted" \/ c \in pending
         /\ workerPc # "finally" => desired = Stopped
<1>1. InFlight = {c}
  BY NoOneIsNobody DEF IInv, SingleFlight
<1>2. workerPc # "finally" => desired = Stopped
  BY NoOneIsNobody DEF IInv, HoldsTarget, Target
<1> QED
  BY <1>1, <1>2 DEF IInv, OneOwner, InFlight, Busy

LEMMA Measured ==
  ASSUME NEW c \in Calls,
         \/ StopStage(c)' < StopStage(c)
         \/ /\ StopStage(c)' = StopStage(c)
            /\ workerPc = "return" /\ workerPc' # "return"
         \/ /\ StopStage(c)' = StopStage(c)
            /\ (workerPc' = "return") <=> (workerPc = "return")
            /\ \/ Draining("admitted")' < Draining("admitted")
               \/ /\ Draining("admitted")' = Draining("admitted")
                  /\ Draining("infer")' < Draining("infer")
  PROVE  Smaller(Remaining(c)', Remaining(c))
<1> DEFINE x == Remaining(c)'
           y == Remaining(c)
<1>1. /\ x[1] = StopStage(c)' /\ y[1] = StopStage(c)
      /\ x[2] = (IF workerPc' = "return" THEN 1 ELSE 0)
      /\ y[2] = (IF workerPc = "return" THEN 1 ELSE 0)
      /\ x[3] = Draining("admitted")' /\ y[3] = Draining("admitted")
      /\ x[4] = Draining("infer")' /\ y[4] = Draining("infer")
  BY DEF Remaining
<1> HIDE DEF x, y
<1>2. Smaller(x, y)
  BY <1>1, FirstDifference
<1> QED
  BY <1>2 DEF x, y

LEMMA StopFalls ==
  ASSUME IsFiniteSet(Predicts), IInv, NEW c \in Calls,
         operation = c, operation' = c, action[c] = "stop",
         \/ Submit(c) \/ WorkerStart(c) \/ WorkerStep
         \/ desired = Stopped /\ \E p \in Predicts : PredictNext(p)
  PROVE  Smaller(Remaining(c)', Remaining(c))
<1> USE DEF controllerVars, callVars, modelVars, workerVars
<1>t. TypeOK
  BY DEF IInv
<1>u. /\ \A d \in Calls : callPc[d] = "accepted" \/ d \in pending => d = c
      /\ callPc[c] = "accepted" => c \notin pending
      /\ Busy => current = c /\ c \notin pending /\ callPc[c] # "accepted"
      /\ ~Busy => callPc[c] = "accepted" \/ c \in pending
  BY StopUnderWay
<1>1. CASE Submit(c)
  <2>1. StopStage(c)' = 4 /\ StopStage(c) = 5
    BY <1>t, <1>1 DEF Submit, TypeOK, StopStage
  <2> QED
    BY <2>1, Measured
<1>2. CASE WorkerStart(c)
  <2>1. StopStage(c)' = 3 /\ StopStage(c) = 4
    BY <1>u, <1>2 DEF WorkerStart, StopStage
  <2> QED
    BY <2>1, Measured
<1>3. CASE WorkerUnload
  <2>1. StopStage(c)' < 3 /\ StopStage(c) = 3
    BY <1>u, <1>3 DEF WorkerUnload, Outcome, StopStage, Busy
  <2> QED
    BY <2>1, Measured
<1>4. CASE WorkerLoad
  BY <1>u, <1>4 DEF WorkerLoad, Busy
<1>5. CASE WorkerRevert
  <2>1. StopStage(c)' = 1 /\ StopStage(c) = 2
    BY <1>u, <1>5 DEF WorkerRevert, StopStage, Busy
  <2> QED
    BY <2>1, Measured
<1>6. CASE WorkerFinally
  BY <1>6, NoOneIsNobody DEF WorkerFinally
<1>7. CASE WorkerReturn
  <2>1. workerPc = "return" /\ workerPc' = "idle" /\ pending' = pending
    BY <1>7 DEF WorkerReturn
  <2>2. callPc'[c] = "accepted" <=> callPc[c] = "accepted"
    BY <1>t, <1>7 DEF WorkerReturn, TypeOK
  <2>3. StopStage(c)' = StopStage(c)
    BY <1>u, <2>1, <2>2 DEF StopStage, Busy
  <2> QED
    BY <2>1, <2>3, Measured
<1>8. ASSUME desired = Stopped, NEW p \in Predicts, PredictNext(p)
      PROVE  Smaller(Remaining(c)', Remaining(c))
  <2>1. UNCHANGED <<callPc, pending, workerPc>>
    BY <1>8 DEF PredictNext, Admit, Infer, LoadFails, InferDone
  <2>2. StopStage(c)' = StopStage(c)
    BY <2>1 DEF StopStage
  <2> QED
    BY <1>t, <1>8, <2>1, <2>2, PredictFalls, Measured
<1> QED
  BY <1>1, <1>2, <1>3, <1>4, <1>5, <1>6, <1>7, <1>8 DEF WorkerStep

LEMMA StopKeepsDistance ==
  ASSUME IInv, [Next]_vars, NEW c \in Calls,
         operation = c, operation' = c, action[c] = "stop",
         ~(Submit(c) \/ WorkerStart(c) \/ WorkerStep),
         ~(desired = Stopped /\ \E p \in Predicts : PredictNext(p))
  PROVE  Remaining(c)' = Remaining(c)
<1> USE DEF controllerVars, callVars, modelVars, workerVars
<1>t. TypeOK
  BY DEF IInv
<1>u. \A d \in Calls : callPc[d] = "accepted" \/ d \in pending => d = c
  BY StopUnderWay
<1>1. ASSUME NEW d \in Calls, Refuse(d) \/ Expire(d) \/ RegisterTimeout(d)
      PROVE  Remaining(c)' = Remaining(c)
  <2>1. callPc'[c] = "accepted" <=> callPc[c] = "accepted"
    BY <1>t, <1>1 DEF Refuse, Expire, RegisterTimeout, TypeOK
  <2>2. UNCHANGED <<desired, pending, workerPc, predictPc>>
    BY <1>1 DEF Refuse, Expire, RegisterTimeout
  <2> QED
    BY <2>1, <2>2 DEF Remaining, StopStage, Draining
<1>2. ASSUME NEW d \in Calls, (\E a \in Actions : Accept(d, a)) \/ Submit(d)
                              \/ WorkerStart(d)
      PROVE  FALSE
  BY <1>u, <1>2, NoOneIsNobody DEF Accept, Submit, WorkerStart
<1>3. ASSUME NEW p \in Predicts, PredictNext(p)
      PROVE  Remaining(c)' = Remaining(c)
  <2>1. UNCHANGED <<desired, callPc, pending, workerPc>>
    BY <1>3 DEF PredictNext, Admit, Infer, LoadFails, InferDone
  <2>2. desired # Stopped
    BY <1>3
  <2> QED
    BY <2>1, <2>2 DEF Remaining, StopStage, Draining
<1>4. CASE UNCHANGED vars
  BY <1>4 DEF vars, Remaining, StopStage, Draining
<1> QED
  BY <1>1, <1>2, <1>3, <1>4 DEF Next, CallNext

\* For any finite number of inference threads: whatever the traffic, the refusals
\* and the timeouts, a stop is never further from its end than it was, and each
\* step of those that work on it brings it nearer (lifecycle.py:193-211).
THEOREM StopComesCloserHolds ==
  ASSUME IsFiniteSet(Predicts)
  PROVE  Spec => StopComesCloser
<1> DEFINE Comes ==
      \A c \in Calls :
        operation = c /\ operation' = c /\ action[c] = "stop" =>
          IF \/ Submit(c) \/ WorkerStart(c) \/ WorkerStep
             \/ desired = Stopped /\ \E p \in Predicts : PredictNext(p)
          THEN Smaller(Remaining(c)', Remaining(c))
          ELSE Remaining(c)' = Remaining(c)
<1>1. IInv /\ [Next]_vars => [Comes]_vars
  <2> SUFFICES ASSUME IInv, [Next]_vars, NEW c \in Calls,
                      operation = c, operation' = c, action[c] = "stop"
               PROVE  IF \/ Submit(c) \/ WorkerStart(c) \/ WorkerStep
                         \/ desired = Stopped /\ \E p \in Predicts : PredictNext(p)
                      THEN Smaller(Remaining(c)', Remaining(c))
                      ELSE Remaining(c)' = Remaining(c)
    OBVIOUS
  <2> QED
    BY StopFalls, StopKeepsDistance
<1> QED
  BY <1>1, Inductive, PTL DEF Spec, StopComesCloser

-------------------------------------------------------------------------------
(* The refinement of LifecycleContract.  A call has its answer exactly when *)
(* its thread is done.                                                     *)
AnsweredOnce == \A c \in Calls : callPc[c] = "answered" <=> reply[c] # "none"

Admitted == {c \in Calls : callPc[c] # "idle" /\ reply[c] # "E_BUSY"}
Landing  == IF workerPc = "return"
              THEN {[call |-> current, res |-> result]} ELSE {}

RInv == IInv /\ AnsweredOnce

LEMMA StepAnsweredOnce == TypeOK /\ AnsweredOnce /\ [Next]_vars => AnsweredOnce'
<1> SUFFICES ASSUME TypeOK, AnsweredOnce, [Next]_vars PROVE AnsweredOnce'
  OBVIOUS
<1> USE DEF TypeOK, AnsweredOnce, callVars
<1>1. ASSUME NEW c \in Calls, CallNext(c) PROVE AnsweredOnce'
  BY <1>1 DEF CallNext, Refuse, Accept, Submit, Expire, RegisterTimeout
<1>2. ASSUME NEW c \in Calls, WorkerStart(c) PROVE AnsweredOnce'
  BY <1>2 DEF WorkerStart
<1>3. ASSUME WorkerUnload \/ WorkerLoad \/ WorkerRevert \/ WorkerFinally
      PROVE AnsweredOnce'
  BY <1>3 DEF WorkerUnload, WorkerLoad, Outcome, WorkerRevert, WorkerFinally
<1>4. ASSUME WorkerReturn PROVE AnsweredOnce'
  <2>1. result # "none"
    BY DEF Results, Failures
  <2> QED
    BY <1>4, <2>1 DEF WorkerReturn
<1>5. ASSUME NEW p \in Predicts, PredictNext(p) PROVE AnsweredOnce'
  BY <1>5 DEF PredictNext, Admit, Infer, LoadFails, InferDone
<1>6. CASE UNCHANGED vars
  BY <1>6 DEF vars
<1> QED
  BY <1>1, <1>2, <1>3, <1>4, <1>5, <1>6 DEF Next, WorkerStep

\* Each step of the threads is a step of the contract or leaves it alone.
LEMMA StepSimulates ==
  RInv /\ [Next]_vars => [Contract!ContractNext]_(Contract!contractVars)
<1> SUFFICES ASSUME RInv, [Next]_vars
             PROVE  \/ Contract!ContractNext
                    \/ UNCHANGED <<desired, operation, loaded, action, Admitted,
                                   Landing, reply>>
  BY DEF Contract!contractVars, Admitted, Landing
<1> USE DEF RInv, IInv, controllerVars, callVars, modelVars, workerVars
<1>1. ASSUME NEW c \in Calls, Refuse(c) PROVE Contract!Refuse(c)
  <2>1. c \notin Admitted /\ reply[c] = "none"
    BY <1>1 DEF Refuse, Admitted, AnsweredOnce, TypeOK
  <2>2. Admitted' = Admitted /\ Landing' = Landing
    BY <1>1 DEF Refuse, Admitted, Landing, TypeOK
  <2> QED
    BY <1>1, <2>1, <2>2 DEF Refuse, Contract!Refuse, Contract!Fresh, Admitted,
       Landing
<1>2. ASSUME NEW c \in Calls, NEW a \in Actions, Accept(c, a)
      PROVE  Contract!Accept(c, a)
  <2>1. c \notin Admitted /\ reply[c] = "none"
    BY <1>2 DEF Accept, Admitted, AnsweredOnce, TypeOK
  <2>2. Admitted' = Admitted \cup {c} /\ Landing' = Landing
    BY <1>2, <2>1 DEF Accept, Admitted, Landing, TypeOK
  <2>3. desired' = Contract!Wanted(a)
    BY <1>2 DEF Accept, Target, Running, Stopped, Contract!Wanted
  <2> QED
    BY <1>2, <2>1, <2>2, <2>3 DEF Accept, Contract!Accept, Contract!Fresh,
       Admitted, Landing
<1>3. ASSUME NEW c \in Calls, Submit(c) \/ Expire(c)
      PROVE  UNCHANGED <<desired, operation, loaded, action, Admitted, Landing,
                         reply>>
  BY <1>3 DEF Submit, Expire, Admitted, Landing, TypeOK
<1>4. ASSUME NEW c \in Calls, RegisterTimeout(c) PROVE Contract!GiveUp(c)
  <2>1. c \in Admitted /\ reply[c] = "none"
    BY <1>4 DEF RegisterTimeout, Admitted, AnsweredOnce, TypeOK
  <2>2. Admitted' = Admitted /\ Landing' = Landing
    BY <1>4, <2>1 DEF RegisterTimeout, Admitted, Landing, TypeOK
  <2> QED
    BY <1>4, <2>1, <2>2 DEF RegisterTimeout, Contract!GiveUp, Admitted, Landing
<1>5. ASSUME NEW c \in Calls, WorkerStart(c)
      PROVE  UNCHANGED <<desired, operation, loaded, action, Admitted, Landing,
                         reply>>
  BY <1>5 DEF WorkerStart, Admitted, Landing
<1>6. ASSUME WorkerUnload
      PROVE  \/ Contract!Unload
             \/ UNCHANGED <<desired, operation, loaded, action, Admitted,
                            Landing, reply>>
  <2>1. operation = current /\ current \in Calls
    BY <1>6, BusyOwns DEF WorkerUnload, Busy
  <2>2. Admitted' = Admitted /\ Landing' = Landing
    BY <1>6 DEF WorkerUnload, Outcome, Admitted, Landing
  <2> QED
    BY <1>6, <2>1, <2>2, NoOneIsNobody DEF WorkerUnload, Outcome,
       Contract!Unload, Admitted, Landing
<1>7. ASSUME WorkerLoad
      PROVE  \/ Contract!Load
             \/ UNCHANGED <<desired, operation, loaded, action, Admitted,
                            Landing, reply>>
  BY <1>7 DEF WorkerLoad, Outcome, Contract!Load, Admitted, Landing
<1>8. ASSUME WorkerRevert PROVE Contract!FallBack
  <2>1. operation = current /\ current \in Calls
    BY <1>8, BusyOwns DEF WorkerRevert, Busy
  <2>2. action[current] \in Actions
    BY <2>1 DEF TypeOK
  <2>3. desired' = Contract!Other(Contract!Wanted(action[current]))
    BY <1>8, <2>2 DEF WorkerRevert, Contract!Other, Contract!Wanted, Actions,
       Running, Stopped
  <2>4. Admitted' = Admitted /\ Landing' = Landing
    BY <1>8 DEF WorkerRevert, Admitted, Landing
  <2> QED
    BY <1>8, <2>1, <2>3, <2>4, NoOneIsNobody DEF WorkerRevert, RevertGround,
       Contract!FallBack, Admitted, Landing
<1>9. ASSUME WorkerFinally PROVE Contract!Land(result)
  <2>1. operation = current /\ current \in Calls
    BY <1>9, BusyOwns DEF WorkerFinally, Busy
  <2>2. Contract!MayLand(action[current], result)
    <3>1. result \in Results
      BY DEF TypeOK
    <3> QED
      BY <1>9, <3>1 DEF WorkerFinally, FailureLanding, Results, Failures,
         Contract!MayLand, Contract!Wanted, Target, Running, Stopped
  <2>3. /\ Landing = {}
        /\ Landing' = {[call |-> operation, res |-> result]}
        /\ Admitted' = Admitted
    BY <1>9, <2>1 DEF WorkerFinally, Admitted, Landing
  <2> QED
    BY <1>9, <2>1, <2>2, <2>3, NoOneIsNobody DEF WorkerFinally, Contract!Land,
       Admitted, Landing
<1>10. ASSUME WorkerReturn
       PROVE  Contract!Answer([call |-> current, res |-> result])
  <2>1. current \in Calls
    BY <1>10 DEF WorkerReturn, OneOwner, TypeOK
  <2>2. reply' = reply \/ /\ reply[current] = "none"
                          /\ reply' = [reply EXCEPT ![current] = result]
    BY <1>10, <2>1 DEF WorkerReturn, AnsweredOnce, TypeOK
  <2>3. Admitted' = Admitted
    BY <1>10, <2>1 DEF WorkerReturn, Admitted, AnsweredOnce, TypeOK, Results,
       Failures
  <2>4. Landing = {[call |-> current, res |-> result]} /\ Landing' = {}
    BY <1>10 DEF WorkerReturn, Landing
  <2> QED
    BY <1>10, <2>2, <2>3, <2>4 DEF WorkerReturn, Contract!Answer, Admitted,
       Landing
<1>11. ASSUME NEW p \in Predicts, PredictNext(p)
       PROVE  \/ Contract!Load
              \/ UNCHANGED <<desired, operation, loaded, action, Admitted,
                             Landing, reply>>
  BY <1>11 DEF PredictNext, Admit, Infer, LoadFails, InferDone, Contract!Load,
     Admitted, Landing
<1>12. CASE UNCHANGED vars
  BY <1>12 DEF vars, Admitted, Landing
<1>13. ASSUME NEW c \in Calls, CallNext(c)
       PROVE  \/ Contract!ContractNext
              \/ UNCHANGED <<desired, operation, loaded, action, Admitted,
                             Landing, reply>>
  BY <1>1, <1>2, <1>3, <1>4, <1>13 DEF CallNext, Contract!ContractNext, Actions
<1>14. ASSUME WorkerFinally PROVE Contract!ContractNext
  BY <1>9, <1>14 DEF Contract!ContractNext, TypeOK, Results, Failures
<1>15. ASSUME WorkerReturn PROVE Contract!ContractNext
  <2>1. [call |-> current, res |-> result] \in Landing
    BY <1>15 DEF WorkerReturn, Landing
  <2> QED
    BY <1>10, <1>15, <2>1 DEF Contract!ContractNext, Landing
<1> QED
  BY <1>5, <1>6, <1>7, <1>8, <1>11, <1>12, <1>13, <1>14, <1>15
     DEF Next, WorkerStep, Contract!ContractNext

\* The controller, its callers, its worker and the inference threads implement
\* the contract their clients rely on.
THEOREM Refinement == Spec => ImplementsContract
<1>1. Init => Contract!ContractInit
  <2> SUFFICES ASSUME Init PROVE Contract!ContractInit
    OBVIOUS
  <2>1. Admitted = {} /\ Landing = {}
    BY DEF Init, Admitted, Landing
  <2> QED
    BY <2>1 DEF Init, Contract!ContractInit, Running, Admitted, Landing
<1>2. Init => RInv
  BY InitIInv DEF RInv, Init, AnsweredOnce
<1>3. RInv /\ [Next]_vars => RInv'
  BY StepIInv, StepAnsweredOnce DEF RInv, IInv
<1> QED
  BY <1>1, <1>2, <1>3, StepSimulates, PTL DEF Spec, ImplementsContract,
     Contract!ContractSpec

-------------------------------------------------------------------------------
\* What the timed-out set knows: nobody who was not told so, and the action under
\* way when its caller was.
LateInv ==
  /\ \A c \in timedOut : reply[c] = "E_TIMEOUT"
  /\ \A c \in Calls : operation = c /\ reply[c] = "E_TIMEOUT" => c \in timedOut

LEMMA StepLateInv == RInv /\ LateInv /\ [Next]_vars => LateInv'
<1> SUFFICES ASSUME RInv, LateInv, [Next]_vars PROVE LateInv'
  OBVIOUS
<1>t. TypeOK /\ AnsweredOnce
  BY DEF RInv, IInv
<1> USE NoOneIsNobody DEF LateInv, controllerVars, callVars, modelVars, workerVars
<1>1. ASSUME NEW c \in Calls, Refuse(c) PROVE LateInv'
  <2>1. reply[c] = "none"
    BY <1>t, <1>1 DEF Refuse, AnsweredOnce
  <2> QED
    BY <1>t, <1>1, <2>1 DEF Refuse, TypeOK
<1>2. ASSUME NEW c \in Calls, NEW a \in Actions, Accept(c, a) PROVE LateInv'
  <2>1. reply[c] = "none"
    BY <1>t, <1>2 DEF Accept, AnsweredOnce
  <2> QED
    BY <1>2, <2>1 DEF Accept
<1>3. ASSUME NEW c \in Calls, Submit(c) \/ Expire(c) \/ WorkerStart(c) PROVE LateInv'
  BY <1>3 DEF Submit, Expire, WorkerStart
<1>4. ASSUME NEW c \in Calls, RegisterTimeout(c) PROVE LateInv'
  BY <1>t, <1>4 DEF RegisterTimeout, TypeOK
<1>5. CASE WorkerUnload \/ WorkerLoad \/ WorkerRevert
  BY <1>5 DEF WorkerUnload, WorkerLoad, Outcome, WorkerRevert
<1>6. CASE WorkerFinally
  BY <1>6 DEF WorkerFinally
<1>7. CASE WorkerReturn
  <2>1. CASE callPc[current] = "submitted" /\ current \in Calls
    <3>1. reply[current] = "none" /\ result # "E_TIMEOUT"
      BY <1>t, <2>1 DEF AnsweredOnce, TypeOK, Results, Failures
    <3>2. reply' = [reply EXCEPT ![current] = result]
      BY <1>7, <2>1 DEF WorkerReturn
    <3>3. UNCHANGED <<timedOut, operation>>
      BY <1>7 DEF WorkerReturn
    <3> QED
      BY <1>t, <2>1, <3>1, <3>2, <3>3 DEF TypeOK
  <2>2. CASE callPc[current] # "submitted"
    BY <1>7, <2>2 DEF WorkerReturn
  <2>3. current \in Calls
    BY <1>t, <1>7 DEF WorkerReturn, RInv, IInv, OneOwner, TypeOK
  <2> QED
    BY <2>1, <2>2, <2>3
<1>8. ASSUME NEW p \in Predicts, PredictNext(p) PROVE LateInv'
  BY <1>8 DEF PredictNext, Admit, Infer, LoadFails, InferDone
<1>9. CASE UNCHANGED vars
  BY <1>9 DEF vars
<1> QED
  BY <1>1, <1>2, <1>3, <1>4, <1>5, <1>6, <1>7, <1>8, <1>9
     DEF Next, CallNext, WorkerStep

\* An action that landed after its caller was told E_TIMEOUT is logged as late, and
\* no other is (lifecycle.py:203-211, 237-241).
THEOREM LogTellsLatenessHolds == Spec => LogTellsLateness
<1> DEFINE Tells == \A c \in Calls :
                      operation = c /\ operation' # c =>
                        (logged'[c] = "late_complete" <=> reply[c] = "E_TIMEOUT")
<1>1. Init => RInv /\ LateInv
  BY InitIInv, NoOneIsNobody DEF RInv, Init, AnsweredOnce, LateInv
<1>2. RInv /\ [Next]_vars => RInv'
  BY StepIInv, StepAnsweredOnce DEF RInv, IInv
<1>3. RInv /\ LateInv /\ [Next]_vars => [Tells]_vars
  <2> SUFFICES ASSUME RInv, LateInv, Next, NEW c \in Calls,
                      operation = c, operation' # c
               PROVE  logged'[c] = "late_complete" <=> reply[c] = "E_TIMEOUT"
    OBVIOUS
  <2>1. WorkerFinally
    BY NoOneIsNobody DEF Next, CallNext, Refuse, Accept, Submit, Expire,
       RegisterTimeout, WorkerStart, WorkerStep, WorkerUnload, WorkerLoad, Outcome,
       WorkerRevert, WorkerReturn, PredictNext, Admit, Infer, LoadFails, InferDone,
       controllerVars
  <2>2. current = c
    BY <2>1, BusyOwns DEF RInv, Busy, WorkerFinally
  <2>3. logged'[c] = IF c \in timedOut THEN "late_complete" ELSE result
    BY <2>1, <2>2 DEF WorkerFinally, RInv, IInv, TypeOK
  <2>4. result # "late_complete"
    BY DEF RInv, IInv, TypeOK, Results, Failures
  <2> QED
    BY <2>3, <2>4 DEF LateInv
<1> QED
  BY <1>1, <1>2, <1>3, StepLateInv, PTL DEF Spec, LogTellsLateness
===============================================================================
