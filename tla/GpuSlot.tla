-------------------------------- MODULE GpuSlot --------------------------------
(***************************************************************************)
(* The single GPU slot of the execution host                               *)
(* (factor_factory/generators/gpu_slot.py): a lock file held with flock and *)
(* an append-only queue file.  Each run is one process that calls acquire   *)
(* and release once; any process may be killed between two steps.          *)
(*                                                                         *)
(* The queue file is read in two ways only: the seq of its last record and *)
(* the latest record of each run.  The model keeps exactly these: tailSeq  *)
(* and latest.  Each append is one exclusive flock section on the file.    *)
(***************************************************************************)
EXTENDS Naturals, FiniteSets

CONSTANTS Runs,       \* run ids; a run id is never reused
          NoRun,      \* nobody holds the flock of gpu.slot
          MaxRecords  \* bound: no probe rejoins the tail beyond this many records

ASSUME SlotAssumption == NoRun \notin Runs /\ MaxRecords \in Nat

VARIABLES tailSeq,     \* queue_seq of the last record of gpu.queue
          latest,      \* the latest record of each run: its event and seq
          flock,       \* the process that holds gpu.slot
          slotPc,      \* where each process is in acquire or release
          windowOpen   \* in_training_window, or --allow-offhours

slotVars == <<tailSeq, latest, flock, slotPc, windowOpen>>

Events == {"none", "queued", "acquired", "released", "timeout", "cancelled"}

SlotTypeOK ==
  /\ tailSeq \in Nat
  /\ latest \in [Runs -> [event : Events, seq : Nat]]
  /\ flock \in Runs \cup {NoRun}
  /\ slotPc \in [Runs -> {"new", "waiting", "head", "probing", "backoff",
                          "rejoin", "holding", "unlocking", "out", "dead"}]
  /\ windowOpen \in BOOLEAN

SlotInit ==
  /\ tailSeq = 0
  /\ latest = [r \in Runs |-> [event |-> "none", seq |-> 0]]
  /\ flock = NoRun
  /\ slotPc = [r \in Runs |-> "new"]
  /\ windowOpen = TRUE

-------------------------------------------------------------------------------
\* _append: the record gets the seq after the last one in the file.
Appended(r, event) ==
  /\ tailSeq' = tailSeq + 1
  /\ latest' = [latest EXCEPT ![r] = [event |-> event, seq |-> tailSeq + 1]]

\* Process r goes on to pc.
Goto(r, pc) == slotPc' = [slotPc EXCEPT ![r] = pc]

Waiting == {r \in Runs : latest[r].event = "queued"}

\* Mutant: the newest waiting record for the oldest.
IsNewest(r) ==
  /\ r \in Waiting
  /\ \A q \in Waiting : latest[q].seq <= latest[r].seq

\* _waiting_head: the smallest seq among the runs whose latest record is queued.
IsHead(r) ==
  /\ r \in Waiting
  /\ \A q \in Waiting : latest[r].seq <= latest[q].seq

Enqueue(r) ==
  /\ slotPc[r] = "new"
  /\ Appended(r, "queued")
  /\ Goto(r, "waiting")
  /\ UNCHANGED <<flock, windowOpen>>

\* The top of the loop: a cancelled wait writes its terminal record and raises.
Cancel(r) ==
  /\ slotPc[r] = "waiting"
  /\ Appended(r, "cancelled")
  /\ Goto(r, "out")
  /\ UNCHANGED <<flock, windowOpen>>

\* Mutant: any waiting run may try the lock.
SeeWindow(r) ==
  /\ slotPc[r] = "waiting"
  /\ windowOpen
  /\ Goto(r, "head")
  /\ UNCHANGED <<tailSeq, latest, flock, windowOpen>>

\* The window is open and the queue file says that r is next; nothing is locked.
SeeHead(r) ==
  /\ slotPc[r] = "waiting"
  /\ windowOpen
  /\ IsHead(r)
  /\ Goto(r, "head")
  /\ UNCHANGED <<tailSeq, latest, flock, windowOpen>>

\* Mutant: the BlockingIOError is swallowed.
IgnoreFlock(r) ==
  /\ slotPc[r] = "head"
  /\ flock' = r
  /\ Goto(r, "probing")
  /\ UNCHANGED <<tailSeq, latest, windowOpen>>

\* flock(LOCK_EX | LOCK_NB) succeeds, or the loop goes round.
TryFlock(r) ==
  /\ slotPc[r] = "head"
  /\ \/ flock = NoRun /\ flock' = r /\ Goto(r, "probing")
     \/ flock # NoRun /\ UNCHANGED flock /\ Goto(r, "waiting")
  /\ UNCHANGED <<tailSeq, latest, windowOpen>>

\* query_vram reads a free card: the run holds the slot.
ProbeEnough(r) ==
  /\ slotPc[r] = "probing"
  /\ Appended(r, "acquired")
  /\ Goto(r, "holding")
  /\ UNCHANGED <<flock, windowOpen>>

\* The card is short of VRAM or unreadable: released, unlock, and to the tail.
ProbeShort(r) ==
  /\ slotPc[r] = "probing"
  /\ tailSeq < MaxRecords
  /\ Appended(r, "released")
  /\ Goto(r, "backoff")
  /\ UNCHANGED <<flock, windowOpen>>

BackOff(r) ==
  /\ slotPc[r] = "backoff"
  /\ flock' = NoRun
  /\ Goto(r, "rejoin")
  /\ UNCHANGED <<tailSeq, latest, windowOpen>>

Rejoin(r) ==
  /\ slotPc[r] = "rejoin"
  /\ Appended(r, "queued")
  /\ Goto(r, "waiting")
  /\ UNCHANGED <<flock, windowOpen>>

\* Mutant: only the head of the queue times out.
HeadTimesOut(r) ==
  /\ slotPc[r] = "waiting"
  /\ IsHead(r)
  /\ Appended(r, "timeout")
  /\ Goto(r, "out")
  /\ UNCHANGED <<flock, windowOpen>>

\* Mutant: the record carries the run's termination instead of the event.
TimeOutByTermination(r) ==
  /\ slotPc[r] = "waiting"
  /\ Appended(r, "queue_timeout")
  /\ Goto(r, "out")
  /\ UNCHANGED <<flock, windowOpen>>

\* The bottom of the loop: queue_timeout_s has elapsed.
TimeOut(r) ==
  /\ slotPc[r] = "waiting"
  /\ Appended(r, "timeout")
  /\ Goto(r, "out")
  /\ UNCHANGED <<flock, windowOpen>>

\* Mutant: the flock is dropped without a record.
ReleaseUnrecorded(r) ==
  /\ slotPc[r] = "holding"
  /\ Goto(r, "unlocking")
  /\ UNCHANGED <<tailSeq, latest, flock, windowOpen>>

\* release: the record is appended before the flock is dropped.
Release(r) ==
  /\ slotPc[r] = "holding"
  /\ Appended(r, "released")
  /\ Goto(r, "unlocking")
  /\ UNCHANGED <<flock, windowOpen>>

Unlock(r) ==
  /\ slotPc[r] = "unlocking"
  /\ flock' = NoRun
  /\ Goto(r, "out")
  /\ UNCHANGED <<tailSeq, latest, windowOpen>>

\* The process is killed: the kernel drops its flock, the queue file stays.
Kill(r) ==
  /\ slotPc[r] \notin {"new", "out", "dead"}
  /\ Goto(r, "dead")
  /\ flock' = IF flock = r THEN NoRun ELSE flock
  /\ UNCHANGED <<tailSeq, latest, windowOpen>>

WindowMoves ==
  /\ windowOpen' = ~windowOpen
  /\ UNCHANGED <<tailSeq, latest, flock, slotPc>>

AcquireStep(r) ==
  \/ Cancel(r) \/ SeeHead(r) \/ TryFlock(r) \/ ProbeEnough(r) \/ ProbeShort(r)
  \/ BackOff(r) \/ Rejoin(r) \/ TimeOut(r)

SlotNext ==
  \/ \E r \in Runs : \/ Enqueue(r) \/ AcquireStep(r) \/ Release(r) \/ Unlock(r)
                     \/ Kill(r)
  \/ WindowMoves

SlotSpec == SlotInit /\ [][SlotNext]_slotVars

\* A live process keeps looping, and a run that holds the slot ends; nobody has
\* to come, be cancelled or be killed.  Every round of the loop ends in the test
\* of queue_timeout_s against a clock that only grows, so a process that passes
\* there again and again takes it: strong fairness, for TimeOut alone.
SlotFairness ==
  \A r \in Runs : /\ WF_slotVars(TryFlock(r))
                  /\ WF_slotVars(ProbeEnough(r) \/ ProbeShort(r))
                  /\ WF_slotVars(BackOff(r) \/ Rejoin(r))
                  /\ SF_slotVars(TimeOut(r))
                  /\ WF_slotVars(Release(r) \/ Unlock(r))

SlotFairSpec == SlotSpec /\ SlotFairness

-------------------------------------------------------------------------------
(* Properties                                                              *)

HasSlot(r) == slotPc[r] \in {"probing", "backoff", "holding", "unlocking"}

\* One run on the card: two live processes are never both past the lock, and
\* the flock belongs to the one that is (gpu_slot.py:129-144, 153-164).
OneHolder ==
  /\ \A r \in Runs : HasSlot(r) => flock = r
  /\ flock \in Runs => HasSlot(flock)

\* The head check is made before the lock and is not repeated under it: it must
\* still be true while the process tries the lock and probes the card
\* (gpu_slot.py:127-137).
HeadStaysHead ==
  \A r \in Runs : slotPc[r] \in {"head", "probing"} => IsHead(r)

\* What the audit file says of a live process is true: its latest record is
\* acquired exactly while it holds the slot, queued exactly while it may still
\* get it.
QueueFileIsTruthful ==
  \A r \in Runs \ {q \in Runs : slotPc[q] = "dead"} :
    /\ latest[r].event = "acquired" <=> slotPc[r] = "holding"
    /\ latest[r].event = "queued" <=> slotPc[r] \in {"waiting", "head", "probing"}

\* First come first served (F003 design.md:210): a run gets the slot only ahead
\* of runs that joined the queue after it, and its record is the newest.
FirstComeFirstServed ==
  [][\A r \in Runs :
       latest[r].event # "acquired" /\ latest'[r].event = "acquired" =>
         /\ \A q \in Waiting \ {r} : latest[r].seq < latest[q].seq
         /\ \A q \in Runs \ {r} : latest'[q].seq < latest'[r].seq]_slotVars

\* No waiting run hangs: it gets the slot or leaves the queue, or is killed
\* (F003 spec.md, NFR-002: it does not hang without end).
NobodyHangs ==
  \A r \in Runs :
    slotPc[r] \in {"waiting", "head", "probing", "backoff", "rejoin"} ~>
      slotPc[r] \in {"holding", "out", "dead"}

-------------------------------------------------------------------------------
(* The refinement: a run waits while its latest record is queued, and has    *)
(* the card from its acquired record until it drops the flock.             *)
Contract == INSTANCE SlotContract WITH
  Clients <- Runs,
  queue   <- Waiting,
  ahead   <- {p \in Waiting \X Waiting : latest[p[1]].seq < latest[p[2]].seq},
  users   <- {r \in Runs : slotPc[r] \in {"holding", "unlocking"}}

\* The unlocked look at the queue file, the flock, the probes, the records of the
\* killed and the renumbering of those that back off amount to a queue: the card
\* goes to the run that has waited longest, when nobody has it (gpu_slot.py:98-167,
\* F003 design.md:210).
ImplementsContract == Contract!ContractSpec
===============================================================================
