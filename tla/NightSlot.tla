------------------------------- MODULE NightSlot -------------------------------
(***************************************************************************)
(* The training night: mining runs that stop the resident Kronos service,   *)
(* wait for the GPU slot, train, release the slot and restore the service.  *)
(*                                                                         *)
(*   factor_factory/cli.py                       _generate and its finally *)
(*   factor_factory/generators/kronos_offload.py offload_/restore_kronos   *)
(*   factor_factory/mine_config.py               restore_kronos_if_needed  *)
(*                                                                         *)
(* It composes two components: the slot (GpuSlot) and the control plane as  *)
(* its clients see it (LifecycleContract, which KronosLifecycle implements).*)
(* The card holds either the model or one training, not both (the 8 GB host *)
(* of docs/alphamill-architecture.md:577-591).  The service is a deployed   *)
(* GPU instance with a control plane; the other rows of the decision table  *)
(* end before any state changes.                                           *)
(***************************************************************************)
EXTENDS Naturals, FiniteSets

CONSTANTS Runs, NoRun, MaxRecords,  \* as in GpuSlot
          NoOne,                    \* no lifecycle action under way
          LateInference,            \* may an inference admitted before a stop
                                    \* load the model after it?
          BrokenAnswers             \* may an answer break off inside its body?

Requests == Runs \X {"stop", "restore"}

ASSUME NightAssumption ==
  /\ NoOne \notin Requests
  /\ NoRun \notin Runs
  /\ MaxRecords \in Nat
  /\ LateInference \in BOOLEAN
  /\ BrokenAnswers \in BOOLEAN

VARIABLES
  desired, operation, loaded, action, admitted, landing, reply, \* the service
  tailSeq, latest, flock, slotPc, windowOpen,                   \* the slot
  night,   \* where each run is in _generate
  duty,    \* KronosOffloadOutcome.restore_required of each run
  posted,  \* lifecycle requests that left a run
  heard    \* requests whose answer reached the run

Kronos == INSTANCE LifecycleContract WITH Calls <- Requests
Slot   == INSTANCE GpuSlot

kronosVars == <<desired, operation, loaded, action, admitted, landing, reply>>
queueVars  == <<tailSeq, latest, flock, slotPc, windowOpen>>
runVars    == <<night, duty, posted, heard>>
nightVars  == <<kronosVars, queueVars, runVars>>

Stop(r)    == <<r, "stop">>
Restore(r) == <<r, "restore">>

NightTypeOK ==
  /\ Slot!SlotTypeOK
  /\ desired \in {"running", "stopped"}
  /\ operation \in Requests \cup {NoOne}
  /\ loaded \in BOOLEAN
  /\ admitted \subseteq Requests
  /\ night \in [Runs -> {"status", "stop", "stopping", "confirm", "budget", "vram",
                         "slot", "train", "unlock", "finally", "restoring",
                         "done", "dead"}]
  /\ duty \in [Runs -> BOOLEAN]
  /\ posted \subseteq Requests
  /\ heard \subseteq posted

NightInit ==
  /\ Kronos!ContractInit
  /\ Slot!SlotInit
  /\ night = [r \in Runs |-> "status"]
  /\ duty = [r \in Runs |-> FALSE]
  /\ posted = {}
  /\ heard = {}

-------------------------------------------------------------------------------
To(r, pc) == night' = [night EXCEPT ![r] = pc]

\* Where run r goes when its program counter is the only thing that moves.
Move(r, from, to) ==
  /\ night[r] = from
  /\ To(r, to)
  /\ UNCHANGED <<kronosVars, queueVars, duty, posted, heard>>

\* The state the service derives for a status request (_state).  It reads desired
\* and then loaded; loaded turns FALSE only while desired is stopped, so an
\* answer "stopped" was true at one moment of the request.
State == CASE desired = "running" /\ loaded  -> "running"
           [] desired = "stopped" /\ ~loaded -> "stopped"
           [] OTHER -> "transitional"

\* The card can hold a training: what a readable, sufficient query_vram implies.
CardIsFree == ~loaded /\ \A r \in Runs : night[r] # "train"

(* offload_kronos *)

\* Already stopped by somebody else: not_needed, and no duty to restore.
SeeStopped(r) == State = "stopped" /\ Move(r, "status", "vram")

SeeRunning(r) == State = "running" /\ Move(r, "status", "stop")

\* Transitional, unreachable or an error envelope: fail closed, nothing asked.
StatusFails(r) == Move(r, "status", "finally")

\* Mutant: the duty waits for an answer.
PostStopFreely(r) ==
  /\ night[r] = "stop"
  /\ To(r, "stopping")
  /\ posted' = posted \cup {Stop(r)}
  /\ UNCHANGED <<kronosVars, queueVars, duty, heard>>

\* From the moment the stop request leaves, the run owes a restore.
PostStop(r) ==
  /\ night[r] = "stop"
  /\ To(r, "stopping")
  /\ posted' = posted \cup {Stop(r)}
  /\ duty' = [duty EXCEPT ![r] = TRUE]
  /\ UNCHANGED <<kronosVars, queueVars, heard>>

\* Anything but "stopped" in the answer is stop_failed: fail closed.
StopAnswered(r) ==
  /\ night[r] = "stopping"
  /\ reply[Stop(r)] # "none"
  /\ heard' = heard \cup {Stop(r)}
  /\ To(r, IF reply[Stop(r)] = "ok" THEN "confirm" ELSE "finally")
  /\ UNCHANGED <<kronosVars, queueVars, duty, posted>>

\* Mutant: the reason of the outcome is taken for the place to go to.
StopLostByReason(r) ==
  /\ night[r] = "stopping"
  /\ \E owed \in {TRUE, ~BrokenAnswers} : duty' = [duty EXCEPT ![r] = owed]
  /\ To(r, "stop_failed")
  /\ UNCHANGED <<kronosVars, queueVars, posted, heard>>

\* The stop request fails, before or after the service saw it.  An OSError keeps
\* the duty; an answer that breaks off inside its body is an IncompleteRead, no
\* OSError: it leaves offload_kronos with the outcome that would hold the duty.
StopLost(r) ==
  /\ night[r] = "stopping"
  /\ \E owed \in {TRUE, ~BrokenAnswers} : duty' = [duty EXCEPT ![r] = owed]
  /\ To(r, "finally")
  /\ UNCHANGED <<kronosVars, queueVars, posted, heard>>

\* The confirming status, and the budget check on a reading after it.
Confirm(r)      == State = "stopped" /\ Move(r, "confirm", "budget")
BudgetChecks(r) == CardIsFree /\ Move(r, "budget", "vram")

\* Unreadable, not released, unreachable, or an answer that breaks off: the confirming
\* status shares the try of the stop.  The budget is a reading of the run's own.
ConfirmFails(r) ==
  \/ /\ night[r] = "confirm"
     /\ \E owed \in {TRUE, ~BrokenAnswers} : duty' = [duty EXCEPT ![r] = owed]
     /\ To(r, "finally")
     /\ UNCHANGED <<kronosVars, queueVars, posted, heard>>
  \/ Move(r, "budget", "finally")

(* _generate around the slot *)

\* The CLI's own VRAM check rejects the run as cuda_unavailable.
VramShort(r) == Move(r, "vram", "finally")

\* The check passes; the first act of acquire is the queue record.
EnterQueue(r) ==
  /\ night[r] = "vram"
  /\ CardIsFree
  /\ Slot!Enqueue(r)
  /\ To(r, "slot")
  /\ UNCHANGED <<kronosVars, duty, posted, heard>>

\* Mutant: the timeout of acquire does not end the run.
QueueStepGoesOn(r) ==
  /\ night[r] = "slot"
  /\ Slot!AcquireStep(r)
  /\ slotPc'[r] = "holding" => CardIsFree
  /\ To(r, IF slotPc'[r] \in {"holding", "out"} THEN "train" ELSE "slot")
  /\ UNCHANGED <<kronosVars, duty, posted, heard>>

\* One step of acquire.  Its probe reads the same card; acquire returns with the
\* slot or raises (timeout, cancelled).
QueueStep(r) ==
  /\ night[r] = "slot"
  /\ Slot!AcquireStep(r)
  /\ slotPc'[r] = "holding" => CardIsFree
  /\ To(r, IF slotPc'[r] = "holding" THEN "train"
           ELSE IF slotPc'[r] = "out" THEN "finally" ELSE "slot")
  /\ UNCHANGED <<kronosVars, duty, posted, heard>>

\* The generation completed, stopped or raised: finally releases the slot first.
ReleaseSlot(r) ==
  /\ night[r] = "train"
  /\ Slot!Release(r)
  /\ To(r, "unlock")
  /\ UNCHANGED <<kronosVars, duty, posted, heard>>

UnlockSlot(r) ==
  /\ night[r] = "unlock"
  /\ Slot!Unlock(r)
  /\ To(r, "finally")
  /\ UNCHANGED <<kronosVars, duty, posted, heard>>

(* restore_kronos_if_needed *)

\* Mutant: only a confirmed stop is restored.
NothingConfirmed(r) ==
  (~duty[r] \/ reply[Stop(r)] # "ok") /\ Move(r, "finally", "done")

NothingOwed(r) == ~duty[r] /\ Move(r, "finally", "done")

PostRestore(r) ==
  /\ night[r] = "finally"
  /\ duty[r]
  /\ To(r, "restoring")
  /\ posted' = posted \cup {Restore(r)}
  /\ UNCHANGED <<kronosVars, queueVars, duty, heard>>

\* Whatever the answer, the run ends; an error is a warning on stderr.
RestoreAnswered(r) ==
  /\ night[r] = "restoring"
  /\ reply[Restore(r)] # "none"
  /\ heard' = heard \cup {Restore(r)}
  /\ To(r, "done")
  /\ UNCHANGED <<kronosVars, queueVars, duty, posted>>

RestoreLost(r) == Move(r, "restoring", "done")

\* The process is killed anywhere; no finally runs.
KillRun(r) ==
  /\ night[r] \notin {"done", "dead"}
  /\ To(r, "dead")
  /\ \/ Slot!Kill(r)
     \/ slotPc[r] \in {"new", "out"} /\ UNCHANGED queueVars
  /\ UNCHANGED <<kronosVars, duty, posted, heard>>

-------------------------------------------------------------------------------
(* The service: a posted request may reach it late or never.               *)
Receive(c) ==
  /\ c \in posted
  /\ Kronos!Accept(c, c[2]) \/ Kronos!Refuse(c)

\* Mutant: the service loads its model whatever is desired.
ServiceLoadsAlways ==
  \/ \E c \in Requests : Receive(c) \/ Kronos!GiveUp(c)
  \/ Kronos!Unload
  \/ Kronos!Load
  \/ \E res \in {"ok", "E_UNLOAD_FAILED", "E_UNAVAILABLE"} : Kronos!Land(res)
  \/ \E l \in landing : Kronos!Answer(l)

Service ==
  \/ \E c \in Requests : Receive(c) \/ Kronos!GiveUp(c)
  \/ Kronos!Unload
  \/ Kronos!Load /\ (LateInference \/ desired = "running")
  \/ Kronos!FallBack
  \/ \E res \in {"ok", "E_UNLOAD_FAILED", "E_UNAVAILABLE"} : Kronos!Land(res)
  \/ \E l \in landing : Kronos!Answer(l)

RunStep(r) ==
  \/ SeeStopped(r) \/ SeeRunning(r) \/ StatusFails(r)
  \/ PostStop(r) \/ StopAnswered(r) \/ StopLost(r)
  \/ Confirm(r) \/ BudgetChecks(r) \/ ConfirmFails(r) \/ VramShort(r) \/ EnterQueue(r)
  \/ QueueStep(r) \/ ReleaseSlot(r) \/ UnlockSlot(r)
  \/ NothingOwed(r) \/ PostRestore(r) \/ RestoreAnswered(r) \/ RestoreLost(r)

\* The window stays open: closing it only delays the head of the queue, which
\* may be late anyway when nothing is assumed fair (GpuSlot moves it).
NightNext ==
  \/ \E r \in Runs : RunStep(r) \/ KillRun(r)
  \/ Service /\ UNCHANGED <<queueVars, runVars>>

NightSpec == NightInit /\ [][NightNext]_nightVars

-------------------------------------------------------------------------------
(* Properties                                                              *)

Training(r) == night[r] = "train"

\* Two runs never train at once, however their offloads, waits, crashes and
\* releases interleave (F003 spec NFR-002).
OneTraining ==
  \A r, q \in Runs : Training(r) /\ Training(q) => r = q

\* The duty to restore survives every way out: a run that let a stop request go
\* does not end without letting a restore request go (mine_config.py:96-100).
StopOwesRestore ==
  \A r \in Runs :
    night[r] = "done" /\ Stop(r) \in posted => Restore(r) \in posted

\* A run never shares the card with a model that it failed to stop: with no
\* late inference, the model can be on the card of a training only because
\* the service admitted the restore of another run.
OnlyARestoreIntrudes ==
  \A r \in Runs :
    Training(r) /\ loaded /\ ~LateInference =>
      \E q \in Runs \ {r} : Restore(q) \in admitted

AllEnded == \A r \in Runs : night[r] = "done"

\* When every request of the night was answered to its run and every restore
\* with success, the service is left running with its model: no stop is still
\* to take effect.
RestoredInTheMorning ==
  /\ AllEnded
  /\ posted \subseteq heard
  /\ \A r \in Runs : Restore(r) \in posted => reply[Restore(r)] = "ok"
  => desired = "running" /\ loaded /\ operation = NoOne

\* The schedule table of the architecture (docs/alphamill-architecture.md:586):
\* training has the card to itself, Kronos is unloaded meanwhile.
TrainingHasTheCard == \A r \in Runs : Training(r) => ~loaded

\* docs/alphamill-architecture.md:664 and mine_config.py:99-100: a stop that times
\* out and lands late is caught by the restore that the run sends on its way
\* out, so that no answered night leaves the service stopped.
LateStopIsCaught ==
  /\ AllEnded
  /\ posted \subseteq heard
  /\ operation = NoOne
  /\ \A r \in Runs : reply[Restore(r)] \in {"none", "ok", "E_BUSY"}
  => desired = "running"

-------------------------------------------------------------------------------
(* The composition keeps to its components.                                *)

\* The runs use the slot as GpuSlot says a process does, and no step of the night
\* goes past its protocol (cli.py:181-249).
ImplementsSlot == Slot!SlotSpec

\* The runs and the requests on their way meet the service as its contract says
\* clients do, and nothing else moves it (kronos_offload.py:71-230).
ImplementsKronos == Kronos!ContractSpec
===============================================================================
