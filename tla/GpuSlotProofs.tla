----------------------------- MODULE GpuSlotProofs -----------------------------
(***************************************************************************)
(* Proofs about GpuSlot for every set of runs.  MaxRecords only disables     *)
(* ProbeShort; no proof depends on its value.                              *)
(*                                                                         *)
(* The invariant adds SeqOrder: the latest records carry distinct seqs, none *)
(* above the tail.  It is what makes a record appended by another process   *)
(* land behind the head, so that the unlocked head check stays true.       *)
(***************************************************************************)
EXTENDS GpuSlot, TLAPS

SeqOrder ==
  /\ \A r \in Runs : latest[r].seq <= tailSeq
  /\ \A r, q \in Runs :
       r # q /\ latest[r].event # "none" => latest[r].seq # latest[q].seq

Unused == \A r \in Runs :
            latest[r].event = "none" <=> latest[r].seq = 0

SlotInv ==
  /\ SlotTypeOK
  /\ OneHolder
  /\ HeadStaysHead
  /\ QueueFileIsTruthful
  /\ SeqOrder
  /\ Unused

-------------------------------------------------------------------------------
\* What one append does to the file, whoever makes it.
LEMMA AppendEffect ==
  ASSUME SlotInv, NEW r \in Runs, NEW e \in Events \ {"none"}, Appended(r, e)
  PROVE  /\ tailSeq' \in Nat
         /\ latest' \in [Runs -> [event : Events, seq : Nat]]
         /\ latest'[r].event = e /\ latest'[r].seq = tailSeq + 1
         /\ \A q \in Runs \ {r} : latest'[q] = latest[q]
         /\ SeqOrder'
         /\ Unused'
<1> USE DEF SlotInv, SlotTypeOK, Appended
<1>1. latest' \in [Runs -> [event : Events, seq : Nat]] /\ tailSeq' \in Nat
  OBVIOUS
<1>2. latest'[r].event = e /\ latest'[r].seq = tailSeq + 1
  OBVIOUS
<1>3. \A q \in Runs \ {r} : latest'[q] = latest[q]
  OBVIOUS
<1>4. \A q \in Runs : latest[q].seq \in Nat /\ latest[q].seq <= tailSeq
  BY DEF SeqOrder
<1>5. SeqOrder'
  BY <1>2, <1>3, <1>4 DEF SeqOrder
<1>6. Unused'
  BY <1>2, <1>3, <1>4 DEF Unused
<1> QED
  BY <1>1, <1>2, <1>3, <1>5, <1>6

\* An append by r takes no other run out of the head, and if it is not a
\* "queued" record it takes r out of the waiting runs.
LEMMA AppendKeepsHeads ==
  ASSUME SlotInv, NEW r \in Runs, NEW e \in Events \ {"none"}, Appended(r, e),
         NEW q \in Runs \ {r}, IsHead(q)
  PROVE  IsHead(q)'
<1>1. \A w \in Runs : latest[w].seq \in Nat /\ latest[w].seq <= tailSeq
  BY DEF SlotInv, SlotTypeOK, SeqOrder
<1>2. latest'[q] = latest[q] /\ q \in Waiting'
  BY AppendEffect DEF IsHead, Waiting
<1>3. ASSUME NEW w \in Waiting' PROVE latest'[q].seq <= latest'[w].seq
  <2>1. CASE w = r
    BY <1>1, <1>2, <2>1, AppendEffect DEF SlotInv, SlotTypeOK
  <2>2. CASE w # r
    BY <1>2, <1>3, <2>2, AppendEffect DEF IsHead, Waiting
  <2> QED
    BY <2>1, <2>2
<1> QED
  BY <1>2, <1>3 DEF IsHead

LEMMA InitSlotInv == SlotInit => SlotInv
  BY SlotAssumption DEF SlotInit, SlotInv, SlotTypeOK, OneHolder, HasSlot,
     HeadStaysHead, QueueFileIsTruthful, SeqOrder, Unused, Events

LEMMA StepSlotInv == SlotInv /\ [SlotNext]_slotVars => SlotInv'
<1> SUFFICES ASSUME SlotInv, [SlotNext]_slotVars PROVE SlotInv'
  OBVIOUS
<1> USE SlotAssumption DEF SlotInv
<1>1. ASSUME NEW r \in Runs,
             NEW e \in Events \ {"none"},
             NEW pc \in {"waiting", "backoff", "holding", "unlocking", "out"},
             Appended(r, e), Goto(r, pc), UNCHANGED <<flock, windowOpen>>,
             HasSlot(r) <=> pc \in {"backoff", "holding", "unlocking"},
             e = "acquired" <=> pc = "holding",
             e = "queued" <=> pc = "waiting"
      PROVE  SlotInv'
  <2>1. /\ slotPc' \in [Runs -> {"new", "waiting", "head", "probing", "backoff",
                                 "rejoin", "holding", "unlocking", "out", "dead"}]
        /\ slotPc'[r] = pc
        /\ \A q \in Runs \ {r} : slotPc'[q] = slotPc[q]
    BY <1>1 DEF Goto, SlotTypeOK
  <2>2. SlotTypeOK'
    BY <1>1, <2>1, AppendEffect DEF SlotTypeOK
  <2>3. SeqOrder' /\ Unused'
    BY <1>1, AppendEffect
  <2>4. OneHolder'
    BY <1>1, <2>1 DEF OneHolder, HasSlot, SlotTypeOK
  <2>5. HeadStaysHead'
    <3> SUFFICES ASSUME NEW q \in Runs, slotPc'[q] \in {"head", "probing"}
                 PROVE  IsHead(q)'
      BY DEF HeadStaysHead
    <3>1. q # r /\ IsHead(q)
      BY <1>1, <2>1 DEF HeadStaysHead
    <3> QED
      BY <1>1, <3>1, AppendKeepsHeads
  <2>6. QueueFileIsTruthful'
    BY <1>1, <2>1, AppendEffect DEF QueueFileIsTruthful
  <2> QED
    BY <2>2, <2>3, <2>4, <2>5, <2>6
<1>2. ASSUME UNCHANGED <<tailSeq, latest>>
      PROVE  SeqOrder' /\ Unused' /\ \A q \in Runs : IsHead(q)' <=> IsHead(q)
  BY <1>2 DEF SeqOrder, Unused, IsHead, Waiting
<1>3. ASSUME NEW r \in Runs, Enqueue(r) PROVE SlotInv'
  BY <1>1, <1>3 DEF Enqueue, HasSlot, Events
<1>4. ASSUME NEW r \in Runs, Cancel(r) \/ TimeOut(r) PROVE SlotInv'
  <2>1. ASSUME NEW e \in {"cancelled", "timeout"}, Appended(r, e) PROVE SlotInv'
    BY <1>1, <1>4, <2>1 DEF Cancel, TimeOut, HasSlot, Events
  <2> QED
    BY <1>4, <2>1 DEF Cancel, TimeOut
<1>5. ASSUME NEW r \in Runs, SeeHead(r) PROVE SlotInv'
  BY <1>2, <1>5 DEF SeeHead, Goto, SlotTypeOK, OneHolder, HasSlot,
     HeadStaysHead, QueueFileIsTruthful
<1>6. ASSUME NEW r \in Runs, TryFlock(r) PROVE SlotInv'
  <2>1. CASE slotPc' = [slotPc EXCEPT ![r] = "waiting"]
    BY <1>2, <1>6, <2>1 DEF TryFlock, Goto, SlotTypeOK, OneHolder, HasSlot,
       HeadStaysHead, QueueFileIsTruthful
  <2>2. CASE flock = NoRun /\ flock' = r /\ Goto(r, "probing")
    BY <1>2, <1>6, <2>2 DEF TryFlock, Goto, SlotTypeOK, OneHolder, HasSlot,
       HeadStaysHead, QueueFileIsTruthful
  <2> QED
    BY <1>6, <2>1, <2>2 DEF TryFlock, Goto
<1>7. ASSUME NEW r \in Runs, ProbeEnough(r) PROVE SlotInv'
  BY <1>1, <1>7 DEF ProbeEnough, HasSlot, Events
<1>8. ASSUME NEW r \in Runs, ProbeShort(r) PROVE SlotInv'
  BY <1>1, <1>8 DEF ProbeShort, HasSlot, Events
<1>9. ASSUME NEW r \in Runs, BackOff(r) \/ Unlock(r) PROVE SlotInv'
  <2>1. flock = r
    BY <1>9 DEF BackOff, Unlock, OneHolder, HasSlot
  <2>2. \A q \in Runs \ {r} : ~HasSlot(q)
    BY <2>1 DEF OneHolder
  <2> QED
    BY <1>2, <1>9, <2>1, <2>2 DEF BackOff, Unlock, Goto, SlotTypeOK, OneHolder,
       HasSlot, HeadStaysHead, QueueFileIsTruthful
<1>10. ASSUME NEW r \in Runs, Rejoin(r) PROVE SlotInv'
  BY <1>1, <1>10 DEF Rejoin, HasSlot, Events
<1>11. ASSUME NEW r \in Runs, Release(r) PROVE SlotInv'
  BY <1>1, <1>11 DEF Release, HasSlot, Events
<1>12. ASSUME NEW r \in Runs, Kill(r) PROVE SlotInv'
  <2>1. \A q \in Runs \ {r} : HasSlot(q) => flock # r
    BY DEF OneHolder
  <2> QED
    BY <1>2, <1>12, <2>1 DEF Kill, Goto, SlotTypeOK, OneHolder, HasSlot,
       HeadStaysHead, QueueFileIsTruthful
<1>13. CASE WindowMoves
  BY <1>2, <1>13 DEF WindowMoves, SlotTypeOK, OneHolder, HasSlot, HeadStaysHead,
     QueueFileIsTruthful
<1>14. CASE UNCHANGED slotVars
  BY <1>2, <1>14 DEF slotVars, SlotTypeOK, OneHolder, HasSlot, HeadStaysHead,
     QueueFileIsTruthful
<1> QED
  BY <1>3, <1>4, <1>5, <1>6, <1>7, <1>8, <1>9, <1>10, <1>11, <1>12, <1>13, <1>14
     DEF SlotNext, AcquireStep

THEOREM SlotInductive == SlotSpec => []SlotInv
  BY InitSlotInv, StepSlotInv, PTL DEF SlotSpec

\* The types of the queue file, the lock and the processes.
THEOREM SlotTypeCorrect == SlotSpec => []SlotTypeOK
<1>1. SlotInv => SlotTypeOK
  BY DEF SlotInv
<1> QED
  BY <1>1, SlotInductive, PTL

\* However many runs queue, probe, back off or are killed, one has the slot.
THEOREM OneHolderHolds == SlotSpec => []OneHolder
<1>1. SlotInv => OneHolder
  BY DEF SlotInv
<1> QED
  BY <1>1, SlotInductive, PTL

\* The head check made without the lock is still true under it.
THEOREM HeadStaysHeadHolds == SlotSpec => []HeadStaysHead
<1>1. SlotInv => HeadStaysHead
  BY DEF SlotInv
<1> QED
  BY <1>1, SlotInductive, PTL

\* The queue file tells the truth about every live process.
THEOREM QueueFileHolds == SlotSpec => []QueueFileIsTruthful
<1>1. SlotInv => QueueFileIsTruthful
  BY DEF SlotInv
<1> QED
  BY <1>1, SlotInductive, PTL

\* First come, first served.
THEOREM FirstComeFirstServedHolds == SlotSpec => FirstComeFirstServed
<1> DEFINE Fair ==
      \A r \in Runs :
        latest[r].event # "acquired" /\ latest'[r].event = "acquired" =>
          /\ \A q \in Waiting \ {r} : latest[r].seq < latest[q].seq
          /\ \A q \in Runs \ {r} : latest'[q].seq < latest'[r].seq
<1>1. SlotInv /\ [SlotNext]_slotVars => [Fair]_slotVars
  <2> SUFFICES ASSUME SlotInv, SlotNext, NEW r \in Runs,
                      latest[r].event # "acquired", latest'[r].event = "acquired"
               PROVE  /\ \A q \in Waiting \ {r} : latest[r].seq < latest[q].seq
                      /\ \A q \in Runs \ {r} : latest'[q].seq < latest'[r].seq
    OBVIOUS
  <2>1. ASSUME NEW s \in Runs, NEW e \in Events \ {"none", "acquired"},
               Appended(s, e)
        PROVE  FALSE
    <3>1. r = s
      BY <2>1, AppendEffect
    <3> QED
      BY <2>1, <3>1, AppendEffect
  <2>2. ASSUME UNCHANGED latest PROVE FALSE
    BY <2>2
  <2>3. PICK s \in Runs : ProbeEnough(s)
    BY <2>1, <2>2 DEF SlotNext, AcquireStep, Enqueue, Cancel, SeeHead, TryFlock,
       ProbeShort, BackOff, Rejoin, TimeOut, Release, Unlock, Kill, WindowMoves,
       Events
  <2>4. "acquired" \in Events \ {"none"} /\ Appended(s, "acquired")
    BY <2>3 DEF ProbeEnough, Events
  <2>5. r = s
    BY <2>4, AppendEffect
  <2>6. IsHead(r)
    BY <2>3, <2>5 DEF ProbeEnough, SlotInv, HeadStaysHead
  <2>7. \A q \in Runs : latest[q].seq \in Nat /\ latest[q].seq <= tailSeq
    BY DEF SlotInv, SlotTypeOK, SeqOrder
  <2>8. \A q \in Waiting \ {r} : latest[r].seq < latest[q].seq
    BY <2>6, <2>7 DEF IsHead, Waiting, SlotInv, SeqOrder
  <2>9. \A q \in Runs \ {r} : latest'[q].seq < latest'[r].seq
    BY <2>4, <2>5, <2>7, AppendEffect DEF SlotInv, SlotTypeOK
  <2> QED
    BY <2>8, <2>9
<1> QED
  BY <1>1, SlotInductive, PTL DEF SlotSpec, FirstComeFirstServed

-------------------------------------------------------------------------------
(* The refinement: what each step is to the queue and to the card.          *)

Ahead == {p \in Waiting \X Waiting : latest[p[1]].seq < latest[p[2]].seq}
Users == {r \in Runs : slotPc[r] \in {"holding", "unlocking"}}

\* A queued record puts a run that was not waiting behind all that are.
LEMMA AppendJoins ==
  ASSUME SlotInv, NEW r \in Runs \ Waiting, Appended(r, "queued")
  PROVE  /\ Waiting' = Waiting \cup {r}
         /\ Ahead' = Ahead \cup (Waiting \X {r})
<1>1. "queued" \in Events \ {"none"}
  BY DEF Events
<1>2. /\ latest'[r].event = "queued" /\ latest'[r].seq = tailSeq + 1
      /\ \A q \in Runs \ {r} : latest'[q] = latest[q]
  BY <1>1, AppendEffect
<1>3. Waiting' = Waiting \cup {r}
  BY <1>2 DEF Waiting
<1>4. tailSeq \in Nat
      /\ \A q \in Runs : latest[q].seq \in Nat /\ latest[q].seq <= tailSeq
  BY DEF SlotInv, SlotTypeOK, SeqOrder
<1>5. Waiting \subseteq Runs
  BY DEF Waiting
<1>6. ASSUME NEW p \in Waiting' \X Waiting'
      PROVE  latest'[p[1]].seq < latest'[p[2]].seq
               <=> p \in Ahead \cup (Waiting \X {r})
  <2>1. CASE p[1] # r /\ p[2] # r
    BY <1>2, <1>3, <1>5, <1>6, <2>1 DEF Ahead
  <2>2. CASE p[1] # r /\ p[2] = r
    BY <1>2, <1>3, <1>4, <1>5, <1>6, <2>2
  <2>3. CASE p[1] = r
    <3>1. ~(latest'[p[1]].seq < latest'[p[2]].seq)
      BY <1>2, <1>3, <1>4, <1>5, <1>6, <2>3
    <3>2. p \notin Ahead /\ p \notin Waiting \X {r}
      BY <2>3 DEF Ahead
    <3> QED
      BY <3>1, <3>2
  <2> QED
    BY <2>1, <2>2, <2>3
<1>7. Ahead \cup (Waiting \X {r}) \subseteq Waiting' \X Waiting'
  BY <1>3 DEF Ahead
<1> QED
  BY <1>3, <1>6, <1>7 DEF Ahead

\* Any other record takes its run out of the waiting ones and moves nobody else.
LEMMA AppendLeaves ==
  ASSUME SlotInv, NEW r \in Runs, NEW e \in Events \ {"none", "queued"},
         Appended(r, e)
  PROVE  /\ Waiting' = Waiting \ {r}
         /\ Ahead' = {p \in Ahead : r \notin {p[1], p[2]}}
<1>1. /\ latest'[r].event # "queued"
      /\ \A q \in Runs \ {r} : latest'[q] = latest[q]
  BY AppendEffect
<1>2. Waiting' = Waiting \ {r}
  BY <1>1 DEF Waiting
<1>3. Waiting \subseteq Runs
  BY DEF Waiting
<1>4. \A p \in Waiting' \X Waiting' :
        latest'[p[1]].seq < latest'[p[2]].seq <=> latest[p[1]].seq < latest[p[2]].seq
  BY <1>1, <1>2, <1>3
<1>5. \A p \in Waiting \X Waiting :
        p \in Waiting' \X Waiting' <=> r \notin {p[1], p[2]}
  BY <1>2
<1> QED
  BY <1>2, <1>4, <1>5 DEF Ahead

\* A step that writes no record leaves the queue alone.
LEMMA NoRecordNoChange ==
  ASSUME UNCHANGED latest
  PROVE  Waiting' = Waiting /\ Ahead' = Ahead
<1>1. Waiting' = Waiting
  BY DEF Waiting
<1> QED
  BY <1>1 DEF Ahead

LEMMA InitContract == SlotInit => Contract!ContractInit
  BY DEF SlotInit, Contract!ContractInit, Waiting

LEMMA StepContract ==
  SlotInv /\ [SlotNext]_slotVars
    => [Contract!ContractNext]_(Contract!slotContractVars)
<1> SUFFICES ASSUME SlotInv, [SlotNext]_slotVars
             PROVE  Contract!ContractNext \/ UNCHANGED Contract!slotContractVars
  OBVIOUS
<1> USE SlotAssumption
<1>1. ASSUME Waiting' = Waiting, Ahead' = Ahead, Users' = Users
      PROVE  UNCHANGED Contract!slotContractVars
  BY <1>1 DEF Contract!slotContractVars, Ahead, Users
<1>2. ASSUME NEW r \in Runs, NEW pc, Goto(r, pc)
      PROVE  /\ pc \in {"holding", "unlocking"} => Users' = Users \cup {r}
             /\ pc \notin {"holding", "unlocking"} => Users' = Users \ {r}
  BY <1>2 DEF Goto, Users, SlotInv, SlotTypeOK
<1>3. ASSUME NEW r \in Runs, Enqueue(r) \/ Rejoin(r) PROVE Contract!Join(r)
  <2>1. r \notin Waiting /\ r \notin Users
    BY <1>3 DEF Enqueue, Rejoin, SlotInv, QueueFileIsTruthful, Waiting, Users
  <2>2. Waiting' = Waiting \cup {r} /\ Ahead' = Ahead \cup (Waiting \X {r})
    BY <1>3, <2>1, AppendJoins DEF Enqueue, Rejoin
  <2>3. Users' = Users
    BY <1>2, <1>3, <2>1 DEF Enqueue, Rejoin
  <2> QED
    BY <2>1, <2>2, <2>3 DEF Contract!Join, Ahead, Users
<1>4. ASSUME NEW r \in Runs, Cancel(r) \/ TimeOut(r) \/ ProbeShort(r)
      PROVE  Contract!Leave(r)
  <2>1. r \in Waiting /\ r \notin Users
    BY <1>4 DEF Cancel, TimeOut, ProbeShort, SlotInv, QueueFileIsTruthful, Waiting,
       Users
  <2>2. Waiting' = Waiting \ {r} /\ Ahead' = {p \in Ahead : r \notin {p[1], p[2]}}
    BY <1>4, AppendLeaves DEF Cancel, TimeOut, ProbeShort, Events
  <2>3. Users' = Users
    BY <1>2, <1>4, <2>1 DEF Cancel, TimeOut, ProbeShort
  <2> QED
    BY <2>1, <2>2, <2>3 DEF Contract!Leave, Contract!Unqueue, Ahead, Users
<1>5. ASSUME NEW r \in Runs, ProbeEnough(r) PROVE Contract!Grant(r)
  <2>1. slotPc[r] = "probing" /\ IsHead(r) /\ flock = r
    BY <1>5 DEF ProbeEnough, SlotInv, HeadStaysHead, OneHolder, HasSlot
  <2>2. Users = {}
    BY <2>1 DEF Users, SlotInv, OneHolder, HasSlot
  <2>3. Waiting' = Waiting \ {r} /\ Ahead' = {p \in Ahead : r \notin {p[1], p[2]}}
    BY <1>5, AppendLeaves DEF ProbeEnough, Events
  <2>4. Users' = {r}
    BY <1>2, <1>5, <2>2 DEF ProbeEnough
  <2>5. \A q \in Waiting \ {r} : <<r, q>> \in Ahead
    <3> SUFFICES ASSUME NEW q \in Waiting \ {r}
                 PROVE  latest[r].seq < latest[q].seq
      BY <2>1 DEF Ahead, IsHead
    <3>1. latest[r].seq \in Nat /\ latest[q].seq \in Nat
      BY DEF SlotInv, SlotTypeOK, Waiting
    <3>2. latest[r].seq <= latest[q].seq /\ latest[r].seq # latest[q].seq
      BY <2>1 DEF IsHead, SlotInv, SeqOrder, Waiting
    <3> QED
      BY <3>1, <3>2
  <2> QED
    BY <2>1, <2>2, <2>3, <2>4, <2>5
       DEF Contract!Grant, Contract!Unqueue, Ahead, Users, IsHead
<1>6. ASSUME NEW r \in Runs, Unlock(r) \/ (Kill(r) /\ r \in Users)
      PROVE  Contract!Free(r)
  <2>1. r \in Users /\ UNCHANGED latest
    BY <1>6 DEF Unlock, Kill, Users
  <2>2. Users' = Users \ {r}
    BY <1>2, <1>6 DEF Unlock, Kill
  <2> QED
    BY <2>1, <2>2, NoRecordNoChange DEF Contract!Free, Ahead, Users
<1>7. ASSUME NEW r \in Runs,
             \/ SeeHead(r) \/ TryFlock(r) \/ BackOff(r)
             \/ Kill(r) /\ r \notin Users
      PROVE  UNCHANGED Contract!slotContractVars
  <2>1. r \notin Users /\ UNCHANGED latest
    BY <1>7 DEF SeeHead, TryFlock, BackOff, Kill, Users
  <2>2. Users' = Users
    BY <1>2, <1>7, <2>1 DEF SeeHead, TryFlock, BackOff, Kill
  <2> QED
    BY <1>1, <2>1, <2>2, NoRecordNoChange
<1>8. ASSUME NEW r \in Runs, Release(r)
      PROVE  UNCHANGED Contract!slotContractVars
  <2>1. r \in Users /\ r \notin Waiting
    BY <1>8 DEF Release, Users, Waiting, SlotInv, QueueFileIsTruthful
  <2>2. Waiting' = Waiting \ {r} /\ Ahead' = {p \in Ahead : r \notin {p[1], p[2]}}
    BY <1>8, AppendLeaves DEF Release, Events
  <2>3. Waiting' = Waiting /\ Ahead' = Ahead
    BY <2>1, <2>2 DEF Ahead
  <2>4. Users' = Users
    BY <1>2, <1>8, <2>1 DEF Release
  <2> QED
    BY <1>1, <2>3, <2>4
<1>9. CASE WindowMoves \/ UNCHANGED slotVars
  <2>1. UNCHANGED <<latest, slotPc>>
    BY <1>9 DEF WindowMoves, slotVars
  <2> QED
    BY <1>1, <2>1, NoRecordNoChange DEF Users
<1> QED
  BY <1>3, <1>4, <1>5, <1>6, <1>7, <1>8, <1>9
     DEF SlotNext, AcquireStep, Contract!ContractNext

\* The queue file, the flock and the probes implement the queue that the mining
\* runs rely on, for any number of runs (gpu_slot.py:98-167).
THEOREM SlotRefinement == SlotSpec => ImplementsContract
<1>1. SlotInit => Contract!ContractInit
  BY InitContract
<1>2. SlotInv /\ [SlotNext]_slotVars
        => [Contract!ContractNext]_(Contract!slotContractVars)
  BY StepContract
<1> QED
  BY <1>1, <1>2, SlotInductive, PTL
     DEF SlotSpec, ImplementsContract, Contract!ContractSpec
===============================================================================
