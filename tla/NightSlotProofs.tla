---------------------------- MODULE NightSlotProofs ----------------------------
(***************************************************************************)
(* Proofs about NightSlot for every set of runs and for both values of its   *)
(* two switches.  Every step of a night is a step of the slot or leaves it  *)
(* alone, so the inductive invariant of GpuSlotProofs holds through it.     *)
(* Below, what the answers of the service and the course of each run have to *)
(* do with one another, and what follows for the model in the morning.      *)
(***************************************************************************)
EXTENDS NightSlot, TLAPS

SlotFacts == INSTANCE GpuSlotProofs

\* The slot and the CLI agree on who trains.
InStep == \A r \in Runs : Training(r) => slotPc[r] = "holding"

\* A run that awaits an answer has sent its request.
Sent ==
  \A r \in Runs : /\ night[r] = "stopping" => Stop(r) \in posted
                  /\ night[r] = "restoring" => Restore(r) \in posted

NightInv == SlotFacts!SlotInv /\ NightTypeOK /\ InStep /\ Sent

\* Where a stop request is on its way, the run knows that it owes a restore, and
\* it passes the finally block only by sending it.
Owed ==
  \A r \in Runs :
    Stop(r) \in posted =>
      /\ duty[r]
      /\ night[r] \in {"restoring", "done"} => Restore(r) \in posted

(* The answers of the service and the course of a run, for the last two     *)
(* theorems.                                                               *)

Results == {"ok", "E_UNLOAD_FAILED", "E_UNAVAILABLE"}

\* The service's books: what is admitted was sent, what has landed or was reported
\* as done is not under way, what was heard was said.
Books ==
  /\ action \in [Requests -> {"stop", "restore"}]
  /\ landing \subseteq [call : Requests, res : Results]
  /\ reply \in [Requests -> Results \cup {"none", "E_BUSY", "E_TIMEOUT"}]
  /\ admitted \subseteq posted
  /\ operation # NoOne => operation \in admitted
  /\ \A c \in admitted : action[c] = c[2]
  /\ \A l \in landing : l.call \in admitted /\ l.call # operation
  /\ \A c \in Requests : reply[c] = "ok" => c \in admitted /\ c # operation
  /\ \A c \in heard : reply[c] # "none"

\* A run sends each request once, the restore last, and has heard nothing of its
\* stop while it waits for the answer.
Course ==
  \A r \in Runs :
    /\ night[r] \in {"status", "stop"} => Stop(r) \notin posted
    /\ night[r] = "stopping" => Stop(r) \notin heard
    /\ Restore(r) \in posted => night[r] \in {"restoring", "done", "dead"}

\* When a run's restore is admitted after the answer to its stop, the stop is over:
\* it was refused, or has left the service free for the restore.
StopsFirst ==
  \A r \in Runs :
    Restore(r) \in admitted /\ Stop(r) \in heard => operation # Stop(r)

StopPending(r) ==
  Stop(r) \in admitted /\ ~(Stop(r) \in heard /\ Restore(r) \in admitted)

RestorePending(r) ==
  /\ Restore(r) \in admitted
  /\ reply[Restore(r)] # "ok"
  /\ [call |-> Restore(r), res |-> "ok"] \notin landing

\* A service without its model has a stop that no restore has followed, or a restore
\* that has not succeeded.
Blamed ==
  \/ desired = "running" /\ loaded
  \/ \E r \in Runs : StopPending(r) \/ RestorePending(r)

MorningInv == Books /\ Course /\ StopsFirst /\ Blamed

\* Once a run has seen the service stopped it stays so, until a restore is admitted.
Stilled ==
  \A r \in Runs :
    night[r] \in {"budget", "vram", "slot", "train"} =>
      \/ desired = "stopped" /\ ~loaded
      \/ \E q \in Runs : Restore(q) \in admitted

-------------------------------------------------------------------------------
(* The slot's actions, under the name of either instance.                  *)

LEMMA SameSteps ==
  ASSUME NEW r \in Runs
  PROVE  /\ Slot!Enqueue(r) => SlotFacts!Enqueue(r)
         /\ Slot!AcquireStep(r) => SlotFacts!AcquireStep(r)
         /\ Slot!Release(r) => SlotFacts!Release(r)
         /\ Slot!Unlock(r) => SlotFacts!Unlock(r)
         /\ Slot!Kill(r) => SlotFacts!Kill(r)
<1> USE DEF Slot!Appended, SlotFacts!Appended, Slot!Goto, SlotFacts!Goto,
            Slot!IsHead, SlotFacts!IsHead, Slot!Waiting, SlotFacts!Waiting
<1>1. Slot!Enqueue(r) => SlotFacts!Enqueue(r)
  BY DEF Slot!Enqueue, SlotFacts!Enqueue
<1>2. Slot!Release(r) => SlotFacts!Release(r)
  BY DEF Slot!Release, SlotFacts!Release
<1>3. Slot!Unlock(r) => SlotFacts!Unlock(r)
  BY DEF Slot!Unlock, SlotFacts!Unlock
<1>4. Slot!Kill(r) => SlotFacts!Kill(r)
  BY DEF Slot!Kill, SlotFacts!Kill
<1>5. Slot!Cancel(r) => SlotFacts!Cancel(r)
  BY DEF Slot!Cancel, SlotFacts!Cancel
<1>6. Slot!SeeHead(r) => SlotFacts!SeeHead(r)
  BY DEF Slot!SeeHead, SlotFacts!SeeHead
<1>7. Slot!TryFlock(r) => SlotFacts!TryFlock(r)
  BY DEF Slot!TryFlock, SlotFacts!TryFlock
<1>8. Slot!ProbeEnough(r) => SlotFacts!ProbeEnough(r)
  BY DEF Slot!ProbeEnough, SlotFacts!ProbeEnough
<1>9. Slot!ProbeShort(r) => SlotFacts!ProbeShort(r)
  BY DEF Slot!ProbeShort, SlotFacts!ProbeShort
<1>10. Slot!BackOff(r) => SlotFacts!BackOff(r)
  BY DEF Slot!BackOff, SlotFacts!BackOff
<1>11. Slot!Rejoin(r) => SlotFacts!Rejoin(r)
  BY DEF Slot!Rejoin, SlotFacts!Rejoin
<1>12. Slot!TimeOut(r) => SlotFacts!TimeOut(r)
  BY DEF Slot!TimeOut, SlotFacts!TimeOut
<1> QED
  BY <1>1, <1>2, <1>3, <1>4, <1>5, <1>6, <1>7, <1>8, <1>9, <1>10, <1>11, <1>12
     DEF Slot!AcquireStep, SlotFacts!AcquireStep

\* What a slot action of r does to the program counters of the slot.
LEMMA SlotPcEffect ==
  ASSUME SlotFacts!SlotInv, NEW r \in Runs,
         \/ Slot!Enqueue(r) \/ Slot!AcquireStep(r) \/ Slot!Release(r)
         \/ Slot!Unlock(r) \/ Slot!Kill(r)
  PROVE  \A q \in Runs \ {r} : slotPc'[q] = slotPc[q]
<1>1. PICK pc : slotPc' = [slotPc EXCEPT ![r] = pc]
  <2>1. ASSUME NEW pc, Slot!Goto(r, pc) PROVE slotPc' = [slotPc EXCEPT ![r] = pc]
    BY <2>1 DEF Slot!Goto
  <2> QED
    BY <2>1 DEF Slot!Enqueue, Slot!AcquireStep, Slot!Release, Slot!Unlock,
       Slot!Kill, Slot!Cancel, Slot!SeeHead, Slot!TryFlock, Slot!ProbeEnough,
       Slot!ProbeShort, Slot!BackOff, Slot!Rejoin, Slot!TimeOut, Slot!Goto
<1> QED
  BY <1>1 DEF SlotFacts!SlotInv, SlotFacts!SlotTypeOK

\* A step of a run is one of its slot actions or leaves the slot alone.
LEMMA RunStepShape ==
  ASSUME NEW r \in Runs, RunStep(r) \/ KillRun(r)
  PROVE  \/ Slot!Enqueue(r) \/ Slot!AcquireStep(r) \/ Slot!Release(r)
         \/ Slot!Unlock(r) \/ Slot!Kill(r)
         \/ UNCHANGED queueVars
<1>1. CASE EnterQueue(r) \/ QueueStep(r)
  BY <1>1 DEF EnterQueue, QueueStep
<1>2. CASE ReleaseSlot(r) \/ UnlockSlot(r) \/ KillRun(r)
  BY <1>2 DEF ReleaseSlot, UnlockSlot, KillRun
<1>3. CASE SeeStopped(r) \/ SeeRunning(r) \/ StatusFails(r) \/ VramShort(r)
           \/ NothingOwed(r) \/ RestoreLost(r) \/ Confirm(r) \/ BudgetChecks(r)
  <2>1. PICK from, to : Move(r, from, to)
    BY <1>3 DEF SeeStopped, SeeRunning, StatusFails, VramShort, NothingOwed,
       RestoreLost, Confirm, BudgetChecks
  <2> QED
    BY <2>1 DEF Move
<1>4. CASE PostStop(r) \/ StopAnswered(r) \/ StopLost(r) \/ PostRestore(r)
           \/ RestoreAnswered(r)
  BY <1>4, Zenon DEF PostStop, StopAnswered, StopLost, PostRestore, RestoreAnswered
<1>5. CASE ConfirmFails(r)
  BY <1>5, Zenon DEF ConfirmFails, Move
<1> QED
  BY <1>1, <1>2, <1>3, <1>4, <1>5 DEF RunStep

\* A step of the night is a step of the slot, or does not touch it.
LEMMA NightStepsSlot ==
  ASSUME [NightNext]_nightVars
  PROVE  [SlotFacts!SlotNext]_SlotFacts!slotVars
<1>1. ASSUME NEW r \in Runs, RunStep(r) \/ KillRun(r)
      PROVE  [SlotFacts!SlotNext]_SlotFacts!slotVars
  <2>1. CASE UNCHANGED queueVars
    BY <2>1 DEF queueVars, SlotFacts!slotVars
  <2>2. CASE ~UNCHANGED queueVars
    BY <1>1, <2>2, RunStepShape, SameSteps DEF SlotFacts!SlotNext
  <2> QED
    BY <2>1, <2>2
<1>2. ASSUME UNCHANGED queueVars PROVE [SlotFacts!SlotNext]_SlotFacts!slotVars
  BY <1>2 DEF queueVars, SlotFacts!slotVars
<1> QED
  BY <1>1, <1>2 DEF NightNext, nightVars

\* The slot's invariant survives every step of the night.
LEMMA SlotInvStep ==
  ASSUME SlotFacts!SlotInv, [NightNext]_nightVars
  PROVE  SlotFacts!SlotInv'
BY NightStepsSlot, SlotFacts!StepSlotInv, NightAssumption DEF SlotFacts!SlotAssumption

\* Only run r itself moves in a step of r, and it trains only with the slot.
LEMMA InStepStep ==
  ASSUME NightInv, [NightNext]_nightVars
  PROVE  InStep'
<1> USE DEF NightInv, NightTypeOK
<1>1. ASSUME NEW r \in Runs, RunStep(r) \/ KillRun(r) PROVE InStep'
  <2>1. \A q \in Runs \ {r} : slotPc'[q] = slotPc[q]
    <3>1. CASE UNCHANGED queueVars
      BY <3>1 DEF queueVars
    <3>2. CASE ~UNCHANGED queueVars
      BY <1>1, <3>2, RunStepShape, SlotPcEffect
    <3> QED
      BY <3>1, <3>2
  <2>2. ASSUME NEW pc, To(r, pc), pc = "train" => slotPc'[r] = "holding"
        PROVE  InStep'
    BY <2>1, <2>2 DEF To, InStep, Training
  <2>3. CASE QueueStep(r)
    BY <2>2, <2>3 DEF QueueStep
  <2> QED
    BY <1>1, <2>2, <2>3 DEF RunStep, SeeStopped, SeeRunning, StatusFails, PostStop,
       StopAnswered, StopLost, Confirm, BudgetChecks, ConfirmFails, VramShort,
       EnterQueue, ReleaseSlot, UnlockSlot, NothingOwed, PostRestore,
       RestoreAnswered, RestoreLost, KillRun, Move
<1>2. ASSUME UNCHANGED <<queueVars, runVars>> PROVE InStep'
  BY <1>2 DEF queueVars, runVars, InStep, Training
<1> QED
  BY <1>1, <1>2 DEF NightNext, nightVars

LEMMA NightTypeStep ==
  ASSUME NightInv, [NightNext]_nightVars
  PROVE  NightTypeOK'
<1> USE DEF NightInv, NightTypeOK
<1>1. Slot!SlotTypeOK'
  BY SlotInvStep DEF SlotFacts!SlotInv, SlotFacts!SlotTypeOK, Slot!SlotTypeOK,
     SlotFacts!Events, Slot!Events
<1>2. ASSUME NEW r \in Runs, RunStep(r) \/ KillRun(r) PROVE NightTypeOK'
  <2>1. /\ Stop(r) \in Requests /\ Restore(r) \in Requests
        /\ UNCHANGED <<desired, operation, loaded, admitted>>
    BY <1>2 DEF RunStep, SeeStopped, SeeRunning, StatusFails, PostStop,
       StopAnswered, StopLost, Confirm, BudgetChecks, ConfirmFails, VramShort,
       EnterQueue, QueueStep, ReleaseSlot, UnlockSlot, NothingOwed, PostRestore,
       RestoreAnswered, RestoreLost, KillRun, Move, kronosVars, Stop, Restore,
       Requests
  <2>2. ASSUME UNCHANGED <<duty, posted, heard>>,
               NEW pc \in {"status", "stop", "stopping", "confirm", "budget",
                           "vram", "slot", "train", "unlock", "finally",
                           "restoring", "done", "dead"},
               To(r, pc)
        PROVE  NightTypeOK'
    BY <1>1, <2>1, <2>2 DEF To
  <2>3. CASE PostStop(r)
    BY <1>1, <2>1, <2>3 DEF PostStop, To
  <2>4. CASE StopAnswered(r)
    BY <1>1, <2>1, <2>4 DEF StopAnswered, To, Sent
  <2>5. ASSUME NEW pc \in {"finally"}, To(r, pc), UNCHANGED <<posted, heard>>,
               \E owed \in {TRUE, ~BrokenAnswers} : duty' = [duty EXCEPT ![r] = owed]
        PROVE  NightTypeOK'
    <3>1. PICK owed \in {TRUE, ~BrokenAnswers} : duty' = [duty EXCEPT ![r] = owed]
      BY <2>5
    <3>2. owed \in BOOLEAN
      BY <3>1, Zenon
    <3>3. duty' \in [Runs -> BOOLEAN]
      BY <3>1, <3>2
    <3> QED
      BY <1>1, <2>1, <2>5, <3>3 DEF To
  <2>10. CASE StopLost(r) \/ ConfirmFails(r)
    BY <2>2, <2>5, <2>10 DEF StopLost, ConfirmFails, Move
  <2>6. CASE PostRestore(r)
    BY <1>1, <2>1, <2>6 DEF PostRestore, To
  <2>7. CASE RestoreAnswered(r)
    BY <1>1, <2>1, <2>7 DEF RestoreAnswered, To, Sent
  <2>8. CASE EnterQueue(r) \/ QueueStep(r) \/ ReleaseSlot(r) \/ UnlockSlot(r)
             \/ KillRun(r)
    BY <2>2, <2>8 DEF EnterQueue, QueueStep, ReleaseSlot, UnlockSlot, KillRun
  <2>9. CASE SeeStopped(r) \/ SeeRunning(r) \/ StatusFails(r) \/ VramShort(r)
             \/ NothingOwed(r) \/ RestoreLost(r) \/ Confirm(r)
             \/ BudgetChecks(r)
    BY <2>2, <2>9 DEF SeeStopped, SeeRunning, StatusFails, VramShort,
       NothingOwed, RestoreLost, Confirm, BudgetChecks, Move
  <2> QED
    BY <1>2, <2>3, <2>4, <2>6, <2>7, <2>8, <2>9, <2>10 DEF RunStep
<1>3. ASSUME Service, UNCHANGED <<queueVars, runVars>> PROVE NightTypeOK'
  <2>1. /\ desired' \in {"running", "stopped"}
        /\ operation' \in Requests \cup {NoOne}
        /\ loaded' \in BOOLEAN
        /\ admitted' \subseteq Requests
    BY <1>3 DEF Service, Receive, Requests, Kronos!Accept, Kronos!Refuse,
       Kronos!GiveUp, Kronos!Unload, Kronos!Load, Kronos!FallBack, Kronos!Land,
       Kronos!Answer, Kronos!Wanted, Kronos!Other
  <2> QED
    BY <1>1, <1>3, <2>1 DEF runVars
<1>4. ASSUME UNCHANGED nightVars PROVE NightTypeOK'
  BY <1>1, <1>4 DEF nightVars, kronosVars, runVars
<1> QED
  BY <1>2, <1>3, <1>4 DEF NightNext

\* Requests are sent once, and a run is the only one that moves itself.
LEMMA SentStep ==
  ASSUME NightInv, [NightNext]_nightVars
  PROVE  Sent'
<1> USE DEF NightInv, NightTypeOK, Sent, Stop, Restore
<1>1. ASSUME NEW r \in Runs, RunStep(r) \/ KillRun(r) PROVE Sent'
  <2>1. ASSUME NEW pc, To(r, pc), posted \subseteq posted',
               pc = "stopping" => Stop(r) \in posted',
               pc = "restoring" => Restore(r) \in posted'
        PROVE  Sent'
    BY <2>1 DEF To
  <2>2. CASE QueueStep(r)
    BY <2>1, <2>2 DEF QueueStep
  <2>3. CASE PostStop(r) \/ PostRestore(r)
    BY <2>1, <2>3 DEF PostStop, PostRestore
  <2> QED
    BY <1>1, <2>1, <2>2, <2>3 DEF RunStep, SeeStopped, SeeRunning, StatusFails,
       StopAnswered, StopLost, Confirm, BudgetChecks, ConfirmFails, VramShort,
       EnterQueue, ReleaseSlot, UnlockSlot, NothingOwed, RestoreAnswered,
       RestoreLost, KillRun, Move
<1>2. ASSUME UNCHANGED runVars PROVE Sent'
  BY <1>2 DEF runVars
<1> QED
  BY <1>1, <1>2 DEF NightNext, nightVars

\* The duty is taken up with the request and dropped only by a broken answer.
LEMMA OwedStep ==
  ASSUME ~BrokenAnswers, NightInv, Owed, [NightNext]_nightVars
  PROVE  Owed'
<1> USE DEF NightInv, NightTypeOK, Owed, Stop, Restore
<1>1. ASSUME NEW r \in Runs, RunStep(r) \/ KillRun(r) PROVE Owed'
  <2>1. ASSUME NEW pc, To(r, pc), UNCHANGED <<duty, posted>>,
               pc \in {"restoring", "done"} =>
                 ~duty[r] \/ night[r] = "restoring"
        PROVE  Owed'
    BY <2>1 DEF To
  <2>2. CASE QueueStep(r)
    BY <2>1, <2>2 DEF QueueStep
  <2>3. CASE PostStop(r)
    BY <2>3 DEF PostStop, To
  <2>4. CASE PostRestore(r)
    BY <2>4 DEF PostRestore, To
  <2>5. ASSUME To(r, "finally"), UNCHANGED posted,
               \E owed \in {TRUE, ~BrokenAnswers} : duty' = [duty EXCEPT ![r] = owed]
        PROVE  Owed'
    <3>1. duty' = [duty EXCEPT ![r] = TRUE]
      <4>1. ~BrokenAnswers <=> TRUE
        OBVIOUS
      <4>2. PICK owed \in {TRUE, ~BrokenAnswers} : duty' = [duty EXCEPT ![r] = owed]
        BY <2>5
      <4>3. CASE owed = TRUE
        BY <4>2, <4>3
      <4>4. CASE owed = ~BrokenAnswers
        BY <4>1, <4>2, <4>4
      <4> QED
        BY <4>2, <4>3, <4>4
    <3> QED
      BY <2>5, <3>1 DEF To
  <2>6. CASE StopAnswered(r) \/ RestoreAnswered(r)
    BY <2>1, <2>6 DEF StopAnswered, RestoreAnswered
  <2>7. CASE StopLost(r) \/ ConfirmFails(r)
    BY <2>1, <2>5, <2>7 DEF StopLost, ConfirmFails, Move
  <2> QED
    BY <1>1, <2>1, <2>2, <2>3, <2>4, <2>6, <2>7 DEF RunStep, SeeStopped,
       SeeRunning, StatusFails, Confirm, BudgetChecks, VramShort,
       EnterQueue, ReleaseSlot, UnlockSlot, NothingOwed, RestoreLost, KillRun,
       Move
<1>2. ASSUME UNCHANGED runVars PROVE Owed'
  BY <1>2 DEF runVars
<1> QED
  BY <1>1, <1>2 DEF NightNext, nightVars

LEMMA InitNightInv == NightInit => NightInv /\ Owed
<1> SUFFICES ASSUME NightInit PROVE NightInv /\ Owed
  OBVIOUS
<1>1. SlotFacts!SlotInv
  BY SlotFacts!InitSlotInv, NightAssumption DEF NightInit, Slot!SlotInit,
     SlotFacts!SlotInit, SlotFacts!SlotAssumption
<1>2. Slot!SlotTypeOK
  BY <1>1 DEF SlotFacts!SlotInv, SlotFacts!SlotTypeOK, Slot!SlotTypeOK,
     SlotFacts!Events, Slot!Events
<1> QED
  BY <1>1, <1>2 DEF NightInit, Kronos!ContractInit, NightInv, NightTypeOK, InStep,
     Sent, Training, Owed

LEMMA StepNightInv == NightInv /\ [NightNext]_nightVars => NightInv'
  BY SlotInvStep, NightTypeStep, InStepStep, SentStep DEF NightInv

THEOREM NightInductive == NightSpec => []NightInv
<1>1. NightInit => NightInv
  BY InitNightInv
<1> QED
  BY <1>1, StepNightInv, PTL DEF NightSpec

\* The types of the service, the slot and the runs.
THEOREM NightTypeCorrect == NightSpec => []NightTypeOK
<1>1. NightInv => NightTypeOK
  BY DEF NightInv
<1> QED
  BY <1>1, NightInductive, PTL

\* One training at a time, with any number of runs and with inferences that load
\* the model whenever they like.
THEOREM OneTrainingHolds == NightSpec => []OneTraining
<1>1. NightInv => OneTraining
  BY DEF NightInv, InStep, OneTraining, SlotFacts!SlotInv, SlotFacts!OneHolder,
     SlotFacts!HasSlot
<1> QED
  BY <1>1, NightInductive, PTL

\* As long as answers do not break off inside their body, no run ends without
\* having sent the restore that its stop request calls for.
THEOREM StopOwesRestoreHolds ==
  ASSUME ~BrokenAnswers
  PROVE  NightSpec => []StopOwesRestore
<1>1. NightInit => NightInv /\ Owed
  BY InitNightInv
<1>2. NightInv /\ Owed /\ [NightNext]_nightVars => (NightInv /\ Owed)'
  BY StepNightInv, OwedStep
<1>3. NightInv /\ Owed => StopOwesRestore
  BY DEF Owed, StopOwesRestore
<1> QED
  BY <1>1, <1>2, <1>3, PTL DEF NightSpec
-------------------------------------------------------------------------------
(* Whose stop it is                                                        *)

LEMMA RunLeavesService ==
  ASSUME NEW r \in Runs, RunStep(r) \/ KillRun(r)
  PROVE  UNCHANGED kronosVars
BY DEF RunStep, SeeStopped, SeeRunning, StatusFails, PostStop, StopAnswered,
   StopLost, Confirm, BudgetChecks, ConfirmFails, VramShort, EnterQueue, QueueStep,
   ReleaseSlot, UnlockSlot, NothingOwed, PostRestore, RestoreAnswered,
   RestoreLost, KillRun, Move

\* What a run hears was said to it, and what it has sent stays sent.
LEMMA RunHears ==
  ASSUME NightInv, NEW r \in Runs, RunStep(r) \/ KillRun(r)
  PROVE  /\ posted \subseteq posted'
         /\ \A c \in heard' \ heard :
              /\ reply[c] # "none"
              /\ \/ c = Stop(r) /\ night[r] = "stopping"
                 \/ c = Restore(r)
BY DEF RunStep, SeeStopped, SeeRunning, StatusFails, PostStop, StopAnswered,
   StopLost, Confirm, BudgetChecks, ConfirmFails, VramShort, EnterQueue, QueueStep,
   ReleaseSlot, UnlockSlot, NothingOwed, PostRestore, RestoreAnswered,
   RestoreLost, KillRun, Move

LEMMA BooksStep ==
  ASSUME NightInv, Books, [NightNext]_nightVars
  PROVE  Books'
<1> USE DEF NightInv, NightTypeOK, Books
<1>1. ASSUME NEW r \in Runs, RunStep(r) \/ KillRun(r) PROVE Books'
  BY <1>1, RunLeavesService, RunHears DEF kronosVars
<1>2. ASSUME Service, UNCHANGED <<queueVars, runVars>> PROVE Books'
  <2> USE DEF runVars
  <2>1. ASSUME NEW c \in Requests, Receive(c) PROVE Books'
    <3>1. c \in posted /\ c[2] \in {"stop", "restore"}
      BY <2>1 DEF Receive, Requests
    <3>2. CASE Kronos!Accept(c, c[2])
      BY <1>2, <3>1, <3>2, NightAssumption DEF Kronos!Accept, Kronos!Fresh
    <3>3. CASE Kronos!Refuse(c)
      BY <1>2, <3>1, <3>3 DEF Kronos!Refuse, Kronos!Fresh
    <3> QED
      BY <2>1, <3>2, <3>3 DEF Receive
  <2>2. ASSUME NEW c \in Requests, Kronos!GiveUp(c) PROVE Books'
    BY <1>2, <2>2 DEF Kronos!GiveUp
  <2>3. CASE Kronos!Unload \/ Kronos!Load \/ Kronos!FallBack
    BY <1>2, <2>3 DEF Kronos!Unload, Kronos!Load, Kronos!FallBack
  <2>4. ASSUME NEW res \in Results, Kronos!Land(res) PROVE Books'
    BY <1>2, <2>4, NightAssumption DEF Kronos!Land
  <2>5. ASSUME NEW l \in landing, Kronos!Answer(l) PROVE Books'
    <3>1. l.call \in Requests /\ l.res \in Results /\ l.call \in admitted
          /\ l.call # operation
      BY DEF Results
    <3>2. l.res # "none"
      BY <3>1 DEF Results
    <3> QED
      BY <1>2, <2>5, <3>1, <3>2 DEF Kronos!Answer
  <2> QED
    BY <1>2, <2>1, <2>2, <2>3, <2>4, <2>5 DEF Service, Results
<1>3. ASSUME UNCHANGED nightVars PROVE Books'
  BY <1>3 DEF nightVars, kronosVars, runVars
<1> QED
  BY <1>1, <1>2, <1>3 DEF NightNext

LEMMA CourseStep ==
  ASSUME NightInv, Course, [NightNext]_nightVars
  PROVE  Course'
<1> USE DEF NightInv, NightTypeOK, Course, Stop, Restore
<1>1. ASSUME NEW r \in Runs, RunStep(r) \/ KillRun(r) PROVE Course'
  <2>1. ASSUME NEW pc, To(r, pc), UNCHANGED <<posted, heard>>,
               pc \notin {"status", "stopping"},
               pc = "stop" => night[r] = "status",
               night[r] \notin {"done", "dead"},
               night[r] = "restoring" => pc \in {"done", "dead"}
        PROVE  Course'
    BY <2>1 DEF To
  <2>2. CASE QueueStep(r)
    BY <2>1, <2>2 DEF QueueStep
  <2>3. CASE PostStop(r)
    BY <2>3 DEF PostStop, To
  <2>4. CASE PostRestore(r)
    BY <2>4 DEF PostRestore, To
  <2>5. CASE StopLost(r) \/ ConfirmFails(r)
    BY <2>1, <2>5 DEF StopLost, ConfirmFails, Move
  <2>6. CASE StopAnswered(r)
    BY <2>6 DEF StopAnswered, To
  <2>7. CASE RestoreAnswered(r)
    BY <2>7 DEF RestoreAnswered, To
  <2> QED
    BY <1>1, <2>1, <2>2, <2>3, <2>4, <2>5, <2>6, <2>7 DEF RunStep, SeeStopped,
       SeeRunning, StatusFails, Confirm, BudgetChecks, VramShort,
       EnterQueue, ReleaseSlot, UnlockSlot, NothingOwed, RestoreLost, KillRun,
       Move
<1>2. ASSUME UNCHANGED runVars PROVE Course'
  BY <1>2 DEF runVars
<1> QED
  BY <1>1, <1>2 DEF NightNext, nightVars

\* A restore is admitted when nothing is under way, and a stop that was heard of is
\* not admitted again.
LEMMA StopsFirstStep ==
  ASSUME NightInv, Books, Course, StopsFirst, [NightNext]_nightVars
  PROVE  StopsFirst'
<1> USE DEF NightInv, NightTypeOK, StopsFirst
<1>1. ASSUME NEW r \in Runs, RunStep(r) \/ KillRun(r) PROVE StopsFirst'
  <2>1. UNCHANGED <<operation, admitted>>
    BY <1>1, RunLeavesService DEF kronosVars
  <2>2. ASSUME NEW q \in Runs, Restore(q) \in admitted, Stop(q) \in heard' \ heard
        PROVE  FALSE
    <3>1. q = r /\ night[r] = "stopping"
      BY <1>1, <2>2, RunHears DEF Stop, Restore
    <3> QED
      BY <2>2, <3>1 DEF Books, Course
  <2> QED
    BY <2>1, <2>2
<1>2. ASSUME Service, UNCHANGED <<queueVars, runVars>> PROVE StopsFirst'
  <2> USE DEF runVars
  <2>1. ASSUME NEW c \in Requests, Kronos!Accept(c, c[2]) PROVE StopsFirst'
    BY <1>2, <2>1, NightAssumption DEF Kronos!Accept, Kronos!Fresh, Books, Stop,
       Restore, Requests
  <2>2. ASSUME UNCHANGED admitted, operation' \in {operation, NoOne}
        PROVE  StopsFirst'
    BY <1>2, <2>2, NightAssumption DEF Stop, Requests
  <2> QED
    BY <1>2, <2>1, <2>2 DEF Service, Receive, Kronos!Refuse, Kronos!GiveUp,
       Kronos!Unload, Kronos!Load, Kronos!FallBack, Kronos!Land, Kronos!Answer
<1>3. ASSUME UNCHANGED nightVars PROVE StopsFirst'
  BY <1>3 DEF nightVars, kronosVars, runVars
<1> QED
  BY <1>1, <1>2, <1>3 DEF NightNext

\* Who is under way is still to blame.
LEMMA UnderWayIsPending ==
  ASSUME NightInv, Books, StopsFirst, operation # NoOne
  PROVE  \E r \in Runs : \/ operation = Stop(r) /\ StopPending(r)
                         \/ operation = Restore(r) /\ RestorePending(r)
<1>1. PICK r \in Runs : operation = Stop(r) \/ operation = Restore(r)
  BY DEF NightInv, NightTypeOK, Requests, Stop, Restore
<1>2. CASE operation = Stop(r)
  BY <1>2 DEF Books, StopsFirst, StopPending
<1>3. CASE operation = Restore(r)
  <2>1. [call |-> Restore(r), res |-> "ok"] \notin landing
    <3>1. DEFINE l == [call |-> Restore(r), res |-> "ok"]
    <3>2. l.call = operation
      BY <1>3
    <3> QED
      BY <3>2 DEF Books
  <2>2. reply[Restore(r)] # "ok"
    BY <1>3 DEF Books, NightInv, NightTypeOK
  <2> QED
    BY <1>3, <2>1, <2>2 DEF Books, RestorePending
<1> QED
  BY <1>1, <1>2, <1>3

LEMMA BlamedStep ==
  ASSUME NightInv, Books, Course, StopsFirst, Blamed, [NightNext]_nightVars
  PROVE  Blamed'
<1> USE DEF NightInv, NightTypeOK
<1>1. ASSUME NEW r \in Runs, RunStep(r) \/ KillRun(r) PROVE Blamed'
  <2>1. UNCHANGED <<desired, loaded, operation, admitted, reply, landing>>
    BY <1>1, RunLeavesService DEF kronosVars
  <2>2. ASSUME NEW q \in Runs, StopPending(q) PROVE StopPending(q)'
    <3>1. ASSUME Restore(q) \in admitted, Stop(q) \in heard' \ heard PROVE FALSE
      <4>1. q = r /\ night[r] = "stopping"
        BY <1>1, <3>1, RunHears DEF Stop, Restore
      <4> QED
        BY <3>1, <4>1 DEF Books, Course
    <3> QED
      BY <2>1, <2>2, <3>1 DEF StopPending, Stop, Restore
  <2>3. ASSUME NEW q \in Runs, RestorePending(q) PROVE RestorePending(q)'
    BY <2>1, <2>3 DEF RestorePending, Restore
  <2> QED
    BY <2>1, <2>2, <2>3 DEF Blamed
<1>2. ASSUME Service, UNCHANGED <<queueVars, runVars>> PROVE Blamed'
  <2>1. ASSUME NEW c \in Requests, c \in posted, Kronos!Accept(c, c[2])
        PROVE  Blamed'
    <3>1. PICK r \in Runs : c = Stop(r) \/ c = Restore(r)
      BY DEF Requests, Stop, Restore
    <3>2. CASE c = Stop(r)
      <4>1. Stop(r) \notin heard
        BY <2>1, <3>2 DEF Books, Kronos!Accept, Kronos!Fresh
      <4>2. StopPending(r)'
        BY <1>2, <2>1, <3>2, <4>1 DEF StopPending, Kronos!Accept, runVars, Stop
      <4> QED
        BY <4>2 DEF Blamed
    <3>3. CASE c = Restore(r)
      <4>1. c \notin admitted /\ reply[c] = "none"
        BY <2>1 DEF Kronos!Accept, Kronos!Fresh
      <4>2. [call |-> c, res |-> "ok"] \notin landing
        <5> DEFINE l == [call |-> c, res |-> "ok"]
        <5>1. l.call = c
          OBVIOUS
        <5> QED
          BY <4>1, <5>1 DEF Books
      <4>3. RestorePending(r)'
        BY <2>1, <3>3, <4>1, <4>2 DEF RestorePending, Kronos!Accept, Restore
      <4> QED
        BY <4>3 DEF Blamed
    <3> QED
      BY <3>1, <3>2, <3>3
  <2>2. ASSUME NEW c \in Requests, Kronos!Refuse(c) \/ Kronos!GiveUp(c)
        PROVE  Blamed'
    <3>1. /\ UNCHANGED <<desired, loaded, admitted, landing, heard>>
          /\ \A d \in Requests : reply[d] # "ok" => reply'[d] # "ok"
      BY <1>2, <2>2 DEF Kronos!Refuse, Kronos!GiveUp, Books, runVars
    <3>2. \A q \in Runs : Restore(q) \in Requests
      BY DEF Restore, Requests
    <3> QED
      BY <3>1, <3>2 DEF Blamed, StopPending, RestorePending, Stop, Restore
  <2>3. CASE Kronos!Unload \/ Kronos!FallBack
    <3>1. operation # NoOne /\ UNCHANGED <<admitted, reply, landing, heard>>
      BY <1>2, <2>3 DEF Kronos!Unload, Kronos!FallBack, runVars
    <3>2. PICK r \in Runs : StopPending(r) \/ RestorePending(r)
      BY <3>1, UnderWayIsPending
    <3> QED
      BY <3>1, <3>2 DEF Blamed, StopPending, RestorePending, Stop, Restore
  <2>4. CASE Kronos!Load
    BY <1>2, <2>4 DEF Kronos!Load, Blamed, StopPending, RestorePending, Stop,
       Restore, runVars
  <2>5. ASSUME NEW res \in Results, Kronos!Land(res) PROVE Blamed'
    <3>1. /\ operation # NoOne
          /\ landing' = {[call |-> operation, res |-> res]}
          /\ UNCHANGED <<desired, loaded, admitted, reply, heard>>
      BY <1>2, <2>5 DEF Kronos!Land, runVars
    <3>2. \A q \in Runs : StopPending(q) => StopPending(q)'
      BY <3>1 DEF StopPending, Stop, Restore
    <3>3. ASSUME NEW q \in Runs, RestorePending(q), ~RestorePending(q)'
          PROVE  desired = "running" /\ loaded
      <4>1. [call |-> Restore(q), res |-> "ok"] \in landing'
        BY <3>1, <3>3 DEF RestorePending, Restore
      <4>2. operation = Restore(q) /\ res = "ok"
        BY <3>1, <4>1
      <4>3. action[operation] = "restore"
        BY <3>1, <4>2 DEF Books, Restore
      <4> QED
        BY <2>5, <4>2, <4>3 DEF Kronos!Land, Kronos!MayLand, Kronos!Wanted
    <3> QED
      BY <3>1, <3>2, <3>3 DEF Blamed
  <2>6. ASSUME NEW l \in landing, Kronos!Answer(l) PROVE Blamed'
    <3>1. /\ landing' = {}
          /\ UNCHANGED <<desired, loaded, admitted, heard>>
      BY <1>2, <2>6 DEF Kronos!Answer, runVars
    <3>2. \A q \in Runs : StopPending(q) => StopPending(q)'
      BY <3>1 DEF StopPending, Stop, Restore
    <3>3. ASSUME NEW q \in Runs, RestorePending(q) PROVE RestorePending(q)'
      <4>1. l \in [call : Requests, res : Results]
        BY DEF Books
      <4>2. l = [call |-> l.call, res |-> l.res]
        BY <4>1
      <4>3. l.call = Restore(q) => l.res # "ok"
        BY <3>3, <4>2 DEF RestorePending
      <4>4. reply'[Restore(q)] # "ok"
        BY <2>6, <3>3, <4>1, <4>3 DEF Kronos!Answer, RestorePending, Books, Restore,
           Requests
      <4> QED
        BY <3>1, <3>3, <4>4 DEF RestorePending, Restore
    <3> QED
      BY <3>1, <3>2, <3>3 DEF Blamed
  <2> QED
    BY <1>2, <2>1, <2>2, <2>3, <2>4, <2>5, <2>6 DEF Service, Receive, Results
<1>3. ASSUME UNCHANGED nightVars PROVE Blamed'
  BY <1>3 DEF nightVars, kronosVars, runVars, Blamed, StopPending, RestorePending,
     Stop, Restore
<1> QED
  BY <1>1, <1>2, <1>3 DEF NightNext

\* With the model off the card and stopped, only a restore can put it back, unless
\* an inference may.
LEMMA StilledStep ==
  ASSUME ~LateInference, NightInv, Books, Stilled, [NightNext]_nightVars
  PROVE  Stilled'
<1> USE DEF NightInv, NightTypeOK, Stilled
<1>1. ASSUME NEW r \in Runs, RunStep(r) \/ KillRun(r) PROVE Stilled'
  <2>1. UNCHANGED <<desired, loaded, admitted>>
    BY <1>1, RunLeavesService DEF kronosVars
  <2>2. ASSUME NEW pc, To(r, pc),
               pc \in {"budget", "vram", "slot", "train"} =>
                 \/ night[r] \in {"budget", "vram", "slot", "train"}
                 \/ desired = "stopped" /\ ~loaded
        PROVE  Stilled'
    BY <2>1, <2>2 DEF To, Restore
  <2>3. CASE QueueStep(r)
    BY <2>2, <2>3 DEF QueueStep
  <2>4. CASE SeeStopped(r) \/ Confirm(r)
    <3>1. desired = "stopped" /\ ~loaded
      BY <2>4 DEF SeeStopped, Confirm, State
    <3> QED
      BY <2>2, <2>4, <3>1 DEF SeeStopped, Confirm, Move
  <2>5. CASE StopAnswered(r)
    BY <2>2, <2>5 DEF StopAnswered
  <2> QED
    BY <1>1, <2>2, <2>3, <2>4, <2>5 DEF RunStep, SeeRunning, StatusFails, PostStop,
       StopLost, BudgetChecks, ConfirmFails, VramShort, EnterQueue, ReleaseSlot,
       UnlockSlot, NothingOwed, PostRestore, RestoreAnswered, RestoreLost, KillRun,
       Move
<1>2. ASSUME Service, UNCHANGED <<queueVars, runVars>> PROVE Stilled'
  <2>1. admitted \subseteq admitted'
    BY <1>2 DEF Service, Receive, Kronos!Accept, Kronos!Refuse, Kronos!GiveUp,
       Kronos!Unload, Kronos!Load, Kronos!FallBack, Kronos!Land, Kronos!Answer
  <2>2. ASSUME desired = "stopped", ~loaded,
               \A q \in Runs : Restore(q) \notin admitted'
        PROVE  desired' = "stopped" /\ ~loaded'
    <3>1. ASSUME operation # NoOne PROVE action[operation] = "stop"
      BY <2>1, <2>2, <3>1 DEF Books, Restore, Requests
    <3>2. ASSUME NEW c \in Requests, Kronos!Accept(c, c[2])
          PROVE  desired' = "stopped" /\ ~loaded'
      BY <2>2, <3>2 DEF Kronos!Accept, Kronos!Wanted, Restore, Requests
    <3>3. CASE Kronos!FallBack
      BY <2>2, <3>1, <3>3 DEF Kronos!FallBack
    <3>4. CASE Kronos!Load /\ (LateInference \/ desired = "running")
      BY <2>2, <3>4
    <3> QED
      BY <1>2, <2>2, <3>2, <3>3, <3>4 DEF Service, Receive, Kronos!Refuse,
         Kronos!GiveUp, Kronos!Unload, Kronos!Land, Kronos!Answer
  <2> QED
    BY <1>2, <2>1, <2>2 DEF runVars, Restore
<1>3. ASSUME UNCHANGED nightVars PROVE Stilled'
  BY <1>3 DEF nightVars, kronosVars, runVars, Restore
<1> QED
  BY <1>1, <1>2, <1>3 DEF NightNext

LEMMA InitMorningInv == NightInit => MorningInv /\ Stilled
<1> SUFFICES ASSUME NightInit PROVE MorningInv /\ Stilled
  OBVIOUS
<1> QED
  BY NightAssumption DEF NightInit, Kronos!ContractInit, MorningInv, Books, Course,
     StopsFirst, Blamed, Stilled

THEOREM MorningInductive == NightSpec => [](NightInv /\ MorningInv)
<1>1. NightInit => NightInv /\ MorningInv
  BY InitNightInv, InitMorningInv
<1>2. NightInv /\ MorningInv /\ [NightNext]_nightVars => (NightInv /\ MorningInv)'
  BY StepNightInv, BooksStep, CourseStep, StopsFirstStep, BlamedStep DEF MorningInv
<1> QED
  BY <1>1, <1>2, PTL DEF NightSpec

\* However many runs stop and restore the service in one night, and whatever loads
\* the model late, as long as answers do not break off inside their body: when
\* everything was answered and every restore succeeded, the service is left running
\* (mine_config.py:96-100).
THEOREM RestoredInTheMorningHolds ==
  ASSUME ~BrokenAnswers
  PROVE  NightSpec => []RestoredInTheMorning
<1>1. ASSUME NightInv, MorningInv, StopOwesRestore PROVE RestoredInTheMorning
  <2> USE <1>1 DEF NightInv, NightTypeOK, MorningInv
  <2> SUFFICES ASSUME AllEnded, posted \subseteq heard,
                      \A r \in Runs : Restore(r) \in posted => reply[Restore(r)] = "ok"
               PROVE  desired = "running" /\ loaded /\ operation = NoOne
    BY DEF RestoredInTheMorning
  <2>1. \A r \in Runs : ~StopPending(r)
    <3>1. ASSUME NEW r \in Runs, Stop(r) \in admitted
          PROVE  Stop(r) \in heard /\ Restore(r) \in admitted
      <4>1. Stop(r) \in heard
        BY <3>1 DEF Books
      <4>2. Restore(r) \in posted
        BY <1>1, <3>1 DEF StopOwesRestore, Books, AllEnded
      <4> QED
        BY <4>1, <4>2 DEF Books
    <3> QED
      BY <3>1 DEF StopPending
  <2>2. \A r \in Runs : ~RestorePending(r)
    BY DEF RestorePending, Books
  <2>3. operation = NoOne
    BY <2>1, <2>2, UnderWayIsPending
  <2> QED
    BY <2>1, <2>2, <2>3 DEF Blamed
<1> QED
  BY <1>1, MorningInductive, StopOwesRestoreHolds, PTL

\* With no inference that loads the model late, only the restore of another run can
\* put it on the card beside a training.
THEOREM OnlyARestoreIntrudesHolds == NightSpec => []OnlyARestoreIntrudes
<1>1. CASE LateInference
  <2>1. OnlyARestoreIntrudes
    BY <1>1 DEF OnlyARestoreIntrudes
  <2> QED
    BY <2>1, PTL
<1>2. CASE ~LateInference
  <2>1. NightInit => NightInv /\ MorningInv /\ Stilled
    BY InitNightInv, InitMorningInv
  <2>2. NightInv /\ MorningInv /\ Stilled /\ [NightNext]_nightVars
          => (NightInv /\ MorningInv /\ Stilled)'
    BY <1>2, StepNightInv, BooksStep, CourseStep, StopsFirstStep, BlamedStep,
       StilledStep DEF MorningInv
  <2>3. NightInv /\ MorningInv /\ Stilled => OnlyARestoreIntrudes
    BY DEF OnlyARestoreIntrudes, Stilled, Training, MorningInv, Books, Course
  <2> QED
    BY <2>1, <2>2, <2>3, PTL DEF NightSpec
<1> QED
  BY <1>1, <1>2

-------------------------------------------------------------------------------
(* The composition keeps to its components.                                *)

LEMMA InitSlotInit == NightInit => SlotFacts!SlotInit
BY DEF NightInit, Slot!SlotInit, SlotFacts!SlotInit

LEMMA NightUsesSlot == NightSpec => SlotFacts!SlotSpec
<1>1. [NightNext]_nightVars => [SlotFacts!SlotNext]_SlotFacts!slotVars
  BY NightStepsSlot
<1> QED
  BY InitSlotInit, <1>1, PTL DEF NightSpec, SlotFacts!SlotSpec

\* Whatever a run does before, between and after its slot calls, and wherever it
\* is killed, the night is a behaviour of the slot (cli.py:181-249).
THEOREM NightImplementsSlot == NightSpec => ImplementsSlot
<1>1. NightInit => Slot!SlotInit
  BY DEF NightInit
<1>2. [NightNext]_nightVars => [Slot!SlotNext]_(Slot!slotVars)
  <2> SUFFICES ASSUME [NightNext]_nightVars
               PROVE  Slot!SlotNext \/ UNCHANGED Slot!slotVars
    OBVIOUS
  <2>1. ASSUME NEW r \in Runs, RunStep(r) \/ KillRun(r)
        PROVE  Slot!SlotNext \/ UNCHANGED Slot!slotVars
    <3>1. CASE UNCHANGED queueVars
      BY <3>1 DEF queueVars, Slot!slotVars
    <3>2. CASE ~UNCHANGED queueVars
      BY <2>1, <3>2, RunStepShape DEF Slot!SlotNext
    <3> QED
      BY <3>1, <3>2
  <2>2. CASE UNCHANGED queueVars
    BY <2>2 DEF queueVars, Slot!slotVars
  <2> QED
    BY <2>1, <2>2 DEF NightNext, nightVars
<1> QED
  BY <1>1, <1>2, PTL DEF NightSpec, ImplementsSlot, Slot!SlotSpec

\* So the mining runs have what the slot promises: one at a time, and the one that
\* has waited longest (gpu_slot.py:98-167).
THEOREM NightKeepsTheQueue == NightSpec => SlotFacts!ImplementsContract
BY NightUsesSlot, SlotFacts!SlotRefinement, NightAssumption
   DEF SlotFacts!SlotAssumption

\* Lost requests, late ones and killed runs stay within what the service's clients
\* may do: KronosLifecycle, which implements the contract, may take its place
\* (kronos_offload.py:71-230).
THEOREM NightImplementsKronos == NightSpec => ImplementsKronos
<1>1. NightInit => Kronos!ContractInit
  BY DEF NightInit
<1>2. [NightNext]_nightVars => [Kronos!ContractNext]_(Kronos!contractVars)
  <2> SUFFICES ASSUME [NightNext]_nightVars
               PROVE  Kronos!ContractNext \/ UNCHANGED Kronos!contractVars
    OBVIOUS
  <2>1. ASSUME UNCHANGED kronosVars PROVE UNCHANGED Kronos!contractVars
    BY <2>1 DEF kronosVars, Kronos!contractVars
  <2>2. ASSUME NEW r \in Runs, RunStep(r) \/ KillRun(r)
        PROVE  UNCHANGED Kronos!contractVars
    BY <2>1, <2>2, RunLeavesService
  <2>3. CASE Service
    <3>1. ASSUME NEW c \in Requests, Receive(c) PROVE Kronos!ContractNext
      <4>1. c[2] \in {"stop", "restore"}
        BY DEF Requests
      <4> QED
        BY <3>1, <4>1 DEF Receive, Kronos!ContractNext
    <3> QED
      BY <2>3, <3>1 DEF Service, Kronos!ContractNext
  <2> QED
    BY <2>1, <2>2, <2>3 DEF NightNext, nightVars
<1> QED
  BY <1>1, <1>2, PTL DEF NightSpec, ImplementsKronos, Kronos!ContractSpec
===============================================================================
