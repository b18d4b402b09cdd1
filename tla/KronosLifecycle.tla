---------------------------- MODULE KronosLifecycle ----------------------------
(***************************************************************************)
(* The control plane of the resident Kronos inference service and the     *)
(* inference threads it races with.                                       *)
(*                                                                         *)
(*   kronos_service/lifecycle.py     LifecycleController                   *)
(*   kronos_service/kronos_real.py   KronosRealSignal                      *)
(*                                                                         *)
(* Three kinds of threads share the state.  A control call (stop/restore) *)
(* runs _run_action in a thread-pool thread; the body of an accepted      *)
(* action runs in the single worker of the executor; /predict requests    *)
(* run generate_signal.  Two locks exist: _meta_lock guards desired,      *)
(* operation and the timed-out set (each critical section is one action   *)
(* here), and the model lock _lock is held across loading, unloading and  *)
(* inference (variable modelLock while an inference is running).          *)
(***************************************************************************)
EXTENDS Naturals, FiniteSets

CONSTANTS Calls,     \* control calls; a call is also the id of its operation
          Predicts,  \* inference threads
          NoOne      \* "operation is None", "the lock is free"

ASSUME NoOneIsNobody == NoOne \notin Calls \cup Predicts

VARIABLES desired,    \* LifecycleController._desired
          operation,  \* LifecycleController._operation: a call or NoOne
          timedOut,   \* LifecycleController._timed_out
          loaded,     \* KronosRealSignal._predictor is not None
          modelLock,  \* inference thread inside "with self._lock", or NoOne
          callPc, action, reply,          \* the threads of _run_action
          pending,                        \* the executor's work queue
          workerPc, current, result,      \* the executor's single worker
          logged,                         \* result field of each log line
          predictPc                       \* the threads of generate_signal

vars == <<desired, operation, timedOut, loaded, modelLock, callPc, action,
          reply, pending, workerPc, current, result, logged, predictPc>>

controllerVars == <<desired, operation, timedOut>>
callVars       == <<callPc, action, reply>>
modelVars      == <<loaded, modelLock>>
workerVars     == <<workerPc, current, result, logged>>

-------------------------------------------------------------------------------
Running == "running"
Stopped == "stopped"
Actions == {"stop", "restore"}

\* stop() asks for STOPPED, restore() for RUNNING.
Target(a) == IF a = "stop" THEN Stopped ELSE Running

Failures == {"E_UNLOAD_FAILED", "E_UNAVAILABLE"}
Results  == {"ok"} \cup Failures
Replies  == {"none", "E_BUSY", "E_TIMEOUT"} \cup Results
LogLines == {"none", "late_complete"} \cup Results

TypeOK ==
  /\ desired \in {Running, Stopped}
  /\ operation \in Calls \cup {NoOne}
  /\ timedOut \in SUBSET Calls
  /\ loaded \in BOOLEAN
  /\ modelLock \in Predicts \cup {NoOne}
  /\ callPc \in [Calls -> {"idle", "accepted", "submitted", "expired",
                           "answered"}]
  /\ action \in [Calls -> Actions]
  /\ reply \in [Calls -> Replies]
  /\ pending \in SUBSET Calls
  /\ workerPc \in {"idle", "body", "revert", "finally", "return"}
  /\ current \in Calls \cup {NoOne}
  /\ result \in Results
  /\ logged \in [Calls -> LogLines]
  /\ predictPc \in [Predicts -> {"idle", "admitted", "infer"}]

\* The service has finished real_mode_startup: the model was loaded eagerly
\* before the first request is served.
Init ==
  /\ desired = Running
  /\ operation = NoOne
  /\ timedOut = {}
  /\ loaded = TRUE
  /\ modelLock = NoOne
  /\ callPc = [c \in Calls |-> "idle"]
  /\ action = [c \in Calls |-> "stop"]
  /\ reply = [c \in Calls |-> "none"]
  /\ pending = {}
  /\ workerPc = "idle"
  /\ current = NoOne
  /\ result = "ok"
  /\ logged = [c \in Calls |-> "none"]
  /\ predictPc = [p \in Predicts |-> "idle"]

-------------------------------------------------------------------------------
(* A control call: _run_action                                             *)

\* Another action is in flight: refused at once, nothing is queued.
Refuse(c) ==
  /\ callPc[c] = "idle"
  /\ operation # NoOne
  /\ callPc' = [callPc EXCEPT ![c] = "answered"]
  /\ reply' = [reply EXCEPT ![c] = "E_BUSY"]
  /\ UNCHANGED <<action, pending, predictPc>>
  /\ UNCHANGED <<controllerVars, modelVars, workerVars>>

\* Mutant: the busy test of _run_action is lost.
AcceptWhileBusy(c, a) ==
  /\ callPc[c] = "idle"
  /\ operation' = c
  /\ desired' = Target(a)
  /\ action' = [action EXCEPT ![c] = a]
  /\ callPc' = [callPc EXCEPT ![c] = "accepted"]
  /\ UNCHANGED <<timedOut, reply, pending, predictPc>>
  /\ UNCHANGED <<modelVars, workerVars>>

\* Mutant: desired is set to the action's name.
AcceptByName(c, a) ==
  /\ callPc[c] = "idle"
  /\ operation = NoOne
  /\ operation' = c
  /\ desired' = a
  /\ action' = [action EXCEPT ![c] = a]
  /\ callPc' = [callPc EXCEPT ![c] = "accepted"]
  /\ UNCHANGED <<timedOut, reply, pending, predictPc>>
  /\ UNCHANGED <<modelVars, workerVars>>

\* The admission test and both assignments form one critical section of
\* _meta_lock.  The VRAM probe for the log line comes after it.
Accept(c, a) ==
  /\ callPc[c] = "idle"
  /\ operation = NoOne
  /\ operation' = c
  /\ desired' = Target(a)
  /\ action' = [action EXCEPT ![c] = a]
  /\ callPc' = [callPc EXCEPT ![c] = "accepted"]
  /\ UNCHANGED <<timedOut, reply, pending, predictPc>>
  /\ UNCHANGED <<modelVars, workerVars>>

\* executor.submit, after the probe; the caller then blocks in future.result.
Submit(c) ==
  /\ callPc[c] = "accepted"
  /\ callPc' = [callPc EXCEPT ![c] = "submitted"]
  /\ pending' = pending \cup {c}
  /\ UNCHANGED <<action, reply, predictPc>>
  /\ UNCHANGED <<controllerVars, modelVars, workerVars>>

\* future.result raises FutureTimeout: the caller stops waiting, the action
\* goes on.  The caller holds no lock yet.
Expire(c) ==
  /\ callPc[c] = "submitted"
  /\ callPc' = [callPc EXCEPT ![c] = "expired"]
  /\ UNCHANGED <<action, reply, pending, predictPc>>
  /\ UNCHANGED <<controllerVars, modelVars, workerVars>>

\* Mutant: a timeout is taken for the end of the action.
TimeoutEndsOperation(c) ==
  /\ callPc[c] = "expired"
  /\ operation' = NoOne
  /\ callPc' = [callPc EXCEPT ![c] = "answered"]
  /\ reply' = [reply EXCEPT ![c] = "E_TIMEOUT"]
  /\ UNCHANGED <<desired, timedOut, action, pending, predictPc>>
  /\ UNCHANGED <<modelVars, workerVars>>

\* Mutant: the timed-out call is not registered.
TimeoutUnregistered(c) ==
  /\ callPc[c] = "expired"
  /\ callPc' = [callPc EXCEPT ![c] = "answered"]
  /\ reply' = [reply EXCEPT ![c] = "E_TIMEOUT"]
  /\ UNCHANGED <<desired, operation, timedOut, action, pending, predictPc>>
  /\ UNCHANGED <<modelVars, workerVars>>

\* The critical section after the timeout tests only that some operation is
\* in flight, not that it is this call's.
RegisterTimeout(c) ==
  /\ callPc[c] = "expired"
  /\ timedOut' = IF operation # NoOne THEN timedOut \cup {c} ELSE timedOut
  /\ callPc' = [callPc EXCEPT ![c] = "answered"]
  /\ reply' = [reply EXCEPT ![c] = "E_TIMEOUT"]
  /\ UNCHANGED <<desired, operation, action, pending, predictPc>>
  /\ UNCHANGED <<modelVars, workerVars>>

-------------------------------------------------------------------------------
(* The worker: _execute, _stop_worker, _restore_worker.  Every statement of *)
(* the two workers that may raise is inside one of their own try blocks,   *)
(* so _converge_after_failure is a safety net that no step here reaches.    *)

WorkerStart(c) ==
  /\ workerPc = "idle"
  /\ c \in pending
  /\ pending' = pending \ {c}
  /\ current' = c
  /\ workerPc' = "body"
  /\ UNCHANGED <<result, logged, predictPc>>
  /\ UNCHANGED <<controllerVars, callVars, modelVars>>

\* The outcome of the worker's call on the signal.
Outcome(res, pc) ==
  /\ result' = res
  /\ workerPc' = pc
  /\ UNCHANGED <<current, logged, pending, predictPc, modelLock>>
  /\ UNCHANGED <<controllerVars, callVars>>

\* signal.unload() takes and leaves the model lock.  The reference is dropped
\* before empty_cache, whose failure is reported but cannot be undone; a
\* failure before the drop leaves the model where it was (with nothing loaded
\* unload returns before anything that can fail).
WorkerUnload ==
  /\ workerPc = "body"
  /\ action[current] = "stop"
  /\ modelLock = NoOne
  /\ \/ loaded' = FALSE /\ Outcome("ok", "finally")
     \/ loaded' = FALSE /\ Outcome("E_UNLOAD_FAILED", "finally")
     \/ /\ loaded
        /\ UNCHANGED loaded
        /\ Outcome("E_UNLOAD_FAILED", "revert")

\* Mutant: a failed load leaves desired at RUNNING.
LoadKeepsDesired ==
  /\ workerPc = "body"
  /\ action[current] = "restore"
  /\ modelLock = NoOne
  /\ \/ loaded' = TRUE /\ Outcome("ok", "finally")
     \/ ~loaded /\ UNCHANGED loaded /\ Outcome("E_UNAVAILABLE", "finally")

\* signal.eager_load() is a no-op on a loaded model.
WorkerLoad ==
  /\ workerPc = "body"
  /\ action[current] = "restore"
  /\ modelLock = NoOne
  /\ \/ loaded' = TRUE /\ Outcome("ok", "finally")
     \/ /\ ~loaded
        /\ UNCHANGED loaded
        /\ Outcome("E_UNAVAILABLE", "revert")

\* The except branches put desired back, in a critical section of their own:
\* the model lock has been released by then.
WorkerRevert ==
  /\ workerPc = "revert"
  /\ desired' = IF action[current] = "stop" THEN Running ELSE Stopped
  /\ workerPc' = "finally"
  /\ UNCHANGED <<operation, timedOut, current, result, logged, pending,
                 predictPc>>
  /\ UNCHANGED <<callVars, modelVars>>

\* The finally block clears operation and decides what the log line says.
WorkerFinally ==
  /\ workerPc = "finally"
  /\ operation' = NoOne
  /\ timedOut' = timedOut \ {current}
  /\ logged' = [logged EXCEPT ![current] =
                  IF current \in timedOut THEN "late_complete" ELSE result]
  /\ workerPc' = "return"
  /\ UNCHANGED <<desired, current, result, pending, predictPc>>
  /\ UNCHANGED <<callVars, modelVars>>

\* The future resolves after the log line; a caller still waiting is answered.
WorkerReturn ==
  /\ workerPc = "return"
  /\ workerPc' = "idle"
  /\ current' = NoOne
  /\ IF callPc[current] = "submitted"
       THEN /\ callPc' = [callPc EXCEPT ![current] = "answered"]
            /\ reply' = [reply EXCEPT ![current] = result]
       ELSE UNCHANGED <<callPc, reply>>
  /\ UNCHANGED <<action, result, logged, pending, predictPc>>
  /\ UNCHANGED <<controllerVars, modelVars>>

-------------------------------------------------------------------------------
(* An inference thread: generate_signal                                    *)

\* Mutant: generate_signal does not ask allow_load.
AdmitAlways(p) ==
  /\ predictPc[p] = "idle"
  /\ predictPc' = [predictPc EXCEPT ![p] = "admitted"]
  /\ UNCHANGED <<controllerVars, callVars, modelVars, workerVars, pending>>

\* allow_load() is read under _meta_lock and the answer used after it; while
\* desired is STOPPED the placeholder signal is returned and nothing changes.
Admit(p) ==
  /\ predictPc[p] = "idle"
  /\ desired = Running
  /\ predictPc' = [predictPc EXCEPT ![p] = "admitted"]
  /\ UNCHANGED <<controllerVars, callVars, modelVars, workerVars, pending>>

\* Under the model lock: _load_predictor loads what is not loaded.
Infer(p) ==
  /\ predictPc[p] = "admitted"
  /\ modelLock = NoOne
  /\ modelLock' = p
  /\ loaded' = TRUE
  /\ predictPc' = [predictPc EXCEPT ![p] = "infer"]
  /\ UNCHANGED <<controllerVars, callVars, workerVars, pending>>

\* _load_predictor raises: the lock is left and the request fails.
LoadFails(p) ==
  /\ predictPc[p] = "admitted"
  /\ modelLock = NoOne
  /\ ~loaded
  /\ predictPc' = [predictPc EXCEPT ![p] = "idle"]
  /\ UNCHANGED <<controllerVars, callVars, modelVars, workerVars, pending>>

\* predict() returned or raised; "with self._lock" ends either way.
InferDone(p) ==
  /\ predictPc[p] = "infer"
  /\ modelLock' = NoOne
  /\ predictPc' = [predictPc EXCEPT ![p] = "idle"]
  /\ UNCHANGED <<loaded, pending>>
  /\ UNCHANGED <<controllerVars, callVars, workerVars>>

-------------------------------------------------------------------------------
CallNext(c) ==
  \/ Refuse(c)
  \/ \E a \in Actions : Accept(c, a)
  \/ Submit(c)
  \/ Expire(c)
  \/ RegisterTimeout(c)

WorkerStep == WorkerUnload \/ WorkerLoad \/ WorkerRevert \/ WorkerFinally
              \/ WorkerReturn

PredictNext(p) == Admit(p) \/ Infer(p) \/ LoadFails(p) \/ InferDone(p)

Next ==
  \/ \E c \in Calls : CallNext(c) \/ WorkerStart(c)
  \/ WorkerStep
  \/ \E p \in Predicts : PredictNext(p)

Spec == Init /\ [][Next]_vars

\* Threads that hold work run on: a submitting caller, the worker, and an
\* inference that was admitted.  Nobody has to call, to be admitted or to time
\* out, and the locks promise no order among their waiters.
Fairness ==
  /\ \A c \in Calls : WF_vars(Submit(c)) /\ WF_vars(WorkerStart(c))
  /\ WF_vars(WorkerStep)
  /\ \A p \in Predicts : WF_vars(Infer(p) \/ LoadFails(p) \/ InferDone(p))

FairSpec == Spec /\ Fairness

-------------------------------------------------------------------------------
(* Properties                                                              *)

\* The calls whose action has been admitted and has not reached its finally.
InFlight ==
  {c \in Calls : callPc[c] = "accepted"} \cup pending \cup
  (IF workerPc \in {"body", "revert", "finally"} THEN {current} ELSE {})

\* Single flight: whatever the interleaving of callers, the executor's queue
\* and the worker, the actions under way are exactly the one that operation
\* names, and none when it is None (lifecycle.py:3-4, 185-191).
SingleFlight ==
  InFlight = IF operation = NoOne THEN {} ELSE {operation}

\* No call leaves the service wanting to run with nothing loaded: once no
\* action is in flight, desired RUNNING implies a loaded model, after every
\* failure and every race with inference (lifecycle.py:11, 277-309).
ServingWhenIdle ==
  operation = NoOne /\ desired = Running => loaded

\* Failure landing, at the moment an action is about to clear operation: a
\* success has the desired state it was asked for, an unload failure is RUNNING
\* only if the model is still there, a load failure is STOPPED (lifecycle.py:
\* 277-309).
FailureLanding ==
  workerPc = "finally" =>
    /\ result = "ok" => /\ desired = Target(action[current])
                        /\ action[current] = "restore" => loaded
    /\ result = "E_UNLOAD_FAILED" => /\ action[current] = "stop"
                                     /\ desired = Running => loaded
    /\ result = "E_UNAVAILABLE" => /\ action[current] = "restore"
                                   /\ desired = Stopped

\* An admitted stop reaches its finally even under endless inference traffic
\* and without a fair lock: desired STOPPED turns new requests away, so the
\* admitted ones drain and the worker gets the model lock.
StopCompletes ==
  \A c \in Calls :
    (operation = c /\ action[c] = "stop") ~> (operation # c)

\* What keeps an action from its end is never stuck itself: its caller has to
\* submit it, the worker has to take it up or go on, or the worker waits for the
\* model lock and the lock is that of an inference that runs, never one that was
\* left or that waits as well (lifecycle.py:193-203, kronos_real.py:156).
NeverStuck ==
  /\ \A p \in Predicts : predictPc[p] = "infer" <=> modelLock = p
  /\ operation # NoOne =>
       \/ callPc[operation] = "accepted"
       \/ operation \in pending /\ workerPc = "idle"
       \/ workerPc \in {"revert", "finally", "return"}
       \/ workerPc = "body" /\ (modelLock = NoOne \/ predictPc[modelLock] = "infer")

\* What a stop has before it, the first difference counting: its own stages, the
\* worker's return from the action before, and, while desired turns new requests
\* away, the inferences admitted earlier that wait for the lock or hold it.
StopStage(c) ==
  IF callPc[c] = "accepted" THEN 5
  ELSE IF c \in pending THEN 4
  ELSE IF workerPc = "body" THEN 3
  ELSE IF workerPc = "revert" THEN 2 ELSE 1

Draining(at) ==
  IF desired = Stopped THEN Cardinality({p \in Predicts : predictPc[p] = at}) ELSE 0

Remaining(c) ==
  <<StopStage(c), IF workerPc = "return" THEN 1 ELSE 0, Draining("admitted"),
    Draining("infer")>>

Smaller(x, y) == \E i \in 1..4 : x[i] < y[i] /\ \A k \in 1..(i - 1) : x[k] = y[k]

\* Every step of the caller that submits a stop, of the worker and of an inference
\* that is draining brings the stop nearer to its finally, and no step of anybody
\* else puts it further off: no traffic, no refused call and no timeout
\* (lifecycle.py:117-120, 193-211, kronos_real.py:137-156).
StopComesCloser ==
  [][\A c \in Calls :
       operation = c /\ operation' = c /\ action[c] = "stop" =>
         IF \/ Submit(c) \/ WorkerStart(c) \/ WorkerStep
            \/ desired = Stopped /\ \E p \in Predicts : PredictNext(p)
         THEN Smaller(Remaining(c)', Remaining(c))
         ELSE Remaining(c)' = Remaining(c)]_vars

\* The log line of an action calls it late exactly when its caller had been told
\* E_TIMEOUT by the time it landed, whichever calls came between and whatever ids
\* others have left in the timed-out set (lifecycle.py:203-211, 237-241).
LogTellsLateness ==
  [][\A c \in Calls :
       operation = c /\ operation' # c =>
         (logged'[c] = "late_complete" <=> reply[c] = "E_TIMEOUT")]_vars

\* A stop that was answered E_TIMEOUT while in flight is reported by a
\* late_complete log line when it lands (lifecycle.py:9-10).
LateStopIsLogged ==
  \A c \in Calls :
    (operation = c /\ action[c] = "stop" /\ reply[c] = "E_TIMEOUT")
      ~> (logged[c] = "late_complete")

\* The comment in lifecycle.py:8 and the contract behind it: while desired is
\* STOPPED no inference request brings the model back, so with no action in
\* flight a stopped service has nothing loaded.  generate_signal reads
\* allow_load before it takes the model lock.
StoppedIsUnloaded ==
  operation = NoOne /\ desired = Stopped => ~loaded

-------------------------------------------------------------------------------
(* The refinement: an action lands when finally clears operation, and its  *)
(* caller hears of it when the future resolves.                            *)
Contract == INSTANCE LifecycleContract WITH
  admitted <- {c \in Calls : callPc[c] # "idle" /\ reply[c] # "E_BUSY"},
  landing  <- IF workerPc = "return"
                THEN {[call |-> current, res |-> result]} ELSE {}

\* The controller with its threads keeps the contract its clients are written
\* against (docs/alphamill-architecture.md:597-631, lifecycle.py:1-11).
ImplementsContract == Contract!ContractSpec
===============================================================================
