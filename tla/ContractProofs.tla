----------------------------- MODULE ContractProofs -----------------------------
(***************************************************************************)
(* What follows from the three contracts alone, and so holds of everything *)
(* that implements them: of a claim and of the jobs of a cohort, of the GPU *)
(* slot and of the night that uses it, of the control plane and of the      *)
(* night that drives it.                                                   *)
(***************************************************************************)
EXTENDS TLAPS

CONSTANTS Keys, Clients, Nobody, Calls, NoOne

VARIABLES holder, working, over, queue, ahead, users, desired, operation, loaded,
          action, admitted, landing, reply

Claims == INSTANCE ClaimContract

Slot == INSTANCE SlotContract

Kronos == INSTANCE LifecycleContract

-------------------------------------------------------------------------------
\* The claims.

ClaimsInv ==
  /\ holder \in [Keys -> Clients \cup {Nobody}]
  /\ working \subseteq Clients
  /\ working \cap over = {}
  /\ Claims!WorkersHold

LEMMA ClaimsInvHolds ==
  ASSUME Nobody \notin Clients
  PROVE  Claims!ContractSpec => []ClaimsInv
<1> USE DEF ClaimsInv, Claims!WorkersHold
<1>1. Claims!ContractInit => ClaimsInv
  BY DEF Claims!ContractInit
<1>2. ClaimsInv /\ [Claims!ContractNext]_(Claims!claimContractVars) => ClaimsInv'
  <2> SUFFICES ASSUME ClaimsInv, [Claims!ContractNext]_(Claims!claimContractVars)
               PROVE  ClaimsInv'
    OBVIOUS
  <2>1. ASSUME NEW k \in Keys, NEW c \in Clients, Claims!Take(k, c)
        PROVE  ClaimsInv'
    <3>1. holder'[k] = c /\ \A j \in Keys \ {k} : holder'[j] = holder[j]
      BY <2>1 DEF Claims!Take
    <3>2. holder[k] \notin working
      BY <2>1 DEF Claims!Take
    <3>3. Claims!WorkersHold'
      BY <2>1, <3>1, <3>2 DEF Claims!Take
    <3> QED
      BY <2>1, <3>3 DEF Claims!Take
  <2>2. ASSUME NEW k \in Keys, NEW c \in Clients, Claims!GiveBack(k, c)
        PROVE  ClaimsInv'
    <3>1. \A j \in Keys \ {k} : holder'[j] = holder[j]
      BY <2>2 DEF Claims!GiveBack
    <3>2. Claims!WorkersHold'
      BY <2>2, <3>1 DEF Claims!GiveBack
    <3> QED
      BY <2>2, <3>2 DEF Claims!GiveBack
  <2>3. ASSUME NEW c \in Clients, Claims!End(c)
        PROVE  ClaimsInv'
    BY <2>3 DEF Claims!End
  <2>4. ASSUME NEW k \in Keys, Claims!Lapse(k)
        PROVE  ClaimsInv'
    <3>1. holder[k] \notin working
      BY <2>4 DEF Claims!Lapse
    <3>2. \A j \in Keys \ {k} : holder'[j] = holder[j]
      BY <2>4 DEF Claims!Lapse
    <3> QED
      BY <2>4, <3>1, <3>2 DEF Claims!Lapse
  <2>5. CASE UNCHANGED Claims!claimContractVars
    BY <2>5 DEF Claims!claimContractVars
  <2> QED
    BY <2>1, <2>2, <2>3, <2>4, <2>5 DEF Claims!ContractNext
<1> QED
  BY <1>1, <1>2, PTL DEF Claims!ContractSpec

\* Whoever is at work has a claim, whatever ends, fails or lapses meanwhile, so that
\* no two work on one experiment (evaluation/claim.py:1-8, :134-150).
THEOREM WorkersHoldTheirClaim ==
  ASSUME Nobody \notin Clients
  PROVE  Claims!ContractSpec => []Claims!WorkersHold
<1>1. Claims!ContractSpec => []ClaimsInv
  BY ClaimsInvHolds
<1>2. ClaimsInv => Claims!WorkersHold
  BY DEF ClaimsInv
<1> QED
  BY <1>1, <1>2, PTL

-------------------------------------------------------------------------------
\* The GPU slot.

SlotInv ==
  /\ ahead \subseteq queue \X queue
  /\ Slot!OneUser
  /\ Slot!FirstComeFirst

\* Those that stay in the line stay in their order.
LEMMA StillALine ==
  ASSUME SlotInv,
         queue' \subseteq queue,
         \A p, q \in queue' : <<p, q>> \in ahead' <=> <<p, q>> \in ahead
  PROVE  Slot!FirstComeFirst'
<1>1. \A p, q \in queue : p # q => (<<p, q>> \in ahead <=> <<q, p>> \notin ahead)
  BY DEF SlotInv, Slot!FirstComeFirst
<1>2. \A p, q, s \in queue :
        <<p, q>> \in ahead /\ <<q, s>> \in ahead => <<p, s>> \in ahead
  BY DEF SlotInv, Slot!FirstComeFirst
<1>3. \A p, q \in queue' : p # q => (<<p, q>> \in ahead' <=> <<q, p>> \notin ahead')
  BY <1>1
<1>4. \A p, q, s \in queue' :
        <<p, q>> \in ahead' /\ <<q, s>> \in ahead' => <<p, s>> \in ahead'
  BY <1>2
<1> QED
  BY <1>3, <1>4 DEF Slot!FirstComeFirst

LEMMA SlotInvHolds == Slot!ContractSpec => []SlotInv
<1> USE DEF SlotInv
<1>1. Slot!ContractInit => SlotInv
  BY DEF Slot!ContractInit, Slot!OneUser, Slot!FirstComeFirst
<1>2. SlotInv /\ [Slot!ContractNext]_(Slot!slotContractVars) => SlotInv'
  <2> SUFFICES ASSUME SlotInv, [Slot!ContractNext]_(Slot!slotContractVars)
               PROVE  SlotInv'
    OBVIOUS
  <2>1. ASSUME NEW r \in Clients, Slot!Join(r)
        PROVE  SlotInv'
    <3>1. ahead' \subseteq queue' \X queue'
      BY <2>1 DEF Slot!Join
    <3>2. Slot!OneUser'
      BY <2>1 DEF Slot!Join, Slot!OneUser
    <3>3. \A p, q : <<p, q>> \in ahead' <=> (<<p, q>> \in ahead \/ (p \in queue /\ q = r))
      BY <2>1 DEF Slot!Join
    <3>4. \A p, q : <<p, q>> \in ahead => p \in queue /\ q \in queue
      OBVIOUS
    <3>5. r \notin queue /\ queue' = queue \cup {r}
      BY <2>1 DEF Slot!Join
    <3>6. Slot!FirstComeFirst'
      <4> SUFFICES ASSUME NEW p \in queue', NEW q \in queue'
                   PROVE  /\ p # q => (<<p, q>> \in ahead' <=> <<q, p>> \notin ahead')
                          /\ \A s \in queue' : <<p, q>> \in ahead' /\ <<q, s>> \in ahead'
                               => <<p, s>> \in ahead'
        BY DEF Slot!FirstComeFirst
      <4>1. p # q => (<<p, q>> \in ahead' <=> <<q, p>> \notin ahead')
        <5>1. p \in queue /\ q \in queue /\ p # q =>
                (<<p, q>> \in ahead <=> <<q, p>> \notin ahead)
          BY DEF Slot!FirstComeFirst
        <5> HIDE DEF SlotInv
        <5> QED
          BY <3>3, <3>4, <3>5, <5>1
      <4>2. ASSUME NEW s \in queue', <<p, q>> \in ahead', <<q, s>> \in ahead'
            PROVE  <<p, s>> \in ahead'
        <5>1. <<p, q>> \in ahead /\ <<q, s>> \in ahead => <<p, s>> \in ahead
          BY <3>4 DEF Slot!FirstComeFirst
        <5> HIDE DEF SlotInv
        <5> QED
          BY <3>3, <3>4, <3>5, <4>2, <5>1
      <4> QED
        BY <4>1, <4>2
    <3> QED
      BY <3>1, <3>2, <3>6
  <2>2. ASSUME NEW r \in Clients, Slot!Unqueue(r)
        PROVE  /\ ahead' \subseteq queue' \X queue'
               /\ Slot!FirstComeFirst'
    <3>1. \A p, q : <<p, q>> \in ahead' <=> (<<p, q>> \in ahead /\ p # r /\ q # r)
      <4> SUFFICES ASSUME NEW p, NEW q
                   PROVE  <<p, q>> \in ahead' <=> (<<p, q>> \in ahead /\ p # r /\ q # r)
        OBVIOUS
      <4>1. <<p, q>>[1] = p /\ <<p, q>>[2] = q
        OBVIOUS
      <4> QED
        BY <2>2, <4>1 DEF Slot!Unqueue
    <3>2. queue' = queue \ {r}
      BY <2>2 DEF Slot!Unqueue
    <3>3. ahead' \subseteq ahead
      BY <2>2 DEF Slot!Unqueue
    <3>4. ahead' \subseteq queue' \X queue'
      BY <3>1, <3>2, <3>3
    <3>5. /\ queue' \subseteq queue
          /\ \A p, q \in queue' : <<p, q>> \in ahead' <=> <<p, q>> \in ahead
      BY <3>1, <3>2
    <3>6. Slot!FirstComeFirst'
      BY <3>5, StillALine
    <3> QED
      BY <3>4, <3>6
  <2>3. ASSUME NEW r \in Clients, Slot!Leave(r)
        PROVE  SlotInv'
    <3>1. Slot!Unqueue(r) /\ users' = users
      BY <2>3 DEF Slot!Leave
    <3>2. Slot!OneUser'
      BY <3>1 DEF Slot!Unqueue, Slot!OneUser
    <3> QED
      BY <2>2, <3>1, <3>2
  <2>4. ASSUME NEW r \in Clients, Slot!Grant(r)
        PROVE  SlotInv'
    <3>1. Slot!Unqueue(r) /\ users' = {r}
      BY <2>4 DEF Slot!Grant
    <3>2. Slot!OneUser'
      BY <3>1 DEF Slot!Unqueue, Slot!OneUser
    <3> QED
      BY <2>2, <3>1, <3>2
  <2>5. ASSUME NEW r \in Clients, Slot!Free(r)
        PROVE  SlotInv'
    <3>1. users' \subseteq users /\ queue' = queue /\ ahead' = ahead
      BY <2>5 DEF Slot!Free
    <3>2. Slot!OneUser'
      BY <3>1 DEF Slot!OneUser
    <3>3. /\ queue' \subseteq queue
          /\ \A p, q \in queue' : <<p, q>> \in ahead' <=> <<p, q>> \in ahead
      BY <3>1
    <3>4. Slot!FirstComeFirst'
      BY <3>3, StillALine
    <3> QED
      BY <3>1, <3>2, <3>4
  <2>6. CASE UNCHANGED Slot!slotContractVars
    <3>1. users' = users /\ queue' = queue /\ ahead' = ahead
      BY <2>6 DEF Slot!slotContractVars
    <3>2. Slot!OneUser'
      BY <3>1 DEF Slot!OneUser
    <3>3. /\ queue' \subseteq queue
          /\ \A p, q \in queue' : <<p, q>> \in ahead' <=> <<p, q>> \in ahead
      BY <3>1
    <3>4. Slot!FirstComeFirst'
      BY <3>3, StillALine
    <3> QED
      BY <3>1, <3>2, <3>4
  <2> QED
    BY <2>1, <2>3, <2>4, <2>5, <2>6 DEF Slot!ContractNext
<1> QED
  BY <1>1, <1>2, PTL DEF Slot!ContractSpec

\* The card has one user at a time, and those that wait for it stand in one line,
\* whoever joins, leaves, is killed or goes back to the tail
\* (gpu_slot.py:98-167).
THEOREM SlotIsALine == Slot!ContractSpec => [](Slot!OneUser /\ Slot!FirstComeFirst)
<1>1. Slot!ContractSpec => []SlotInv
  BY SlotInvHolds
<1>2. SlotInv => Slot!OneUser /\ Slot!FirstComeFirst
  BY DEF SlotInv
<1> QED
  BY <1>1, <1>2, PTL

-------------------------------------------------------------------------------
\* The Kronos control plane.

Outcomes == {"ok", "E_UNLOAD_FAILED", "E_UNAVAILABLE"}

KronosInv ==
  /\ operation \in admitted \cup {NoOne}
  /\ admitted \subseteq Calls
  /\ reply \in [Calls -> Outcomes \cup {"none", "E_BUSY", "E_TIMEOUT"}]
  /\ landing \subseteq [call : admitted, res : Outcomes]
  /\ Kronos!OutcomeOnce

LEMMA KronosInvHolds ==
  ASSUME NoOne \notin Calls
  PROVE  Kronos!ContractSpec => []KronosInv
<1> USE DEF KronosInv, Outcomes
<1>1. Kronos!ContractInit => KronosInv
  BY DEF Kronos!ContractInit, Kronos!OutcomeOnce
<1>2. KronosInv /\ [Kronos!ContractNext]_(Kronos!contractVars) => KronosInv'
  <2> SUFFICES ASSUME KronosInv, [Kronos!ContractNext]_(Kronos!contractVars)
               PROVE  KronosInv'
    OBVIOUS
  <2>1. ASSUME NEW c \in Calls, Kronos!Refuse(c)
        PROVE  KronosInv'
    BY <2>1 DEF Kronos!Refuse, Kronos!Fresh, Kronos!OutcomeOnce
  <2>2. ASSUME NEW c \in Calls, Kronos!GiveUp(c)
        PROVE  KronosInv'
    BY <2>2 DEF Kronos!GiveUp, Kronos!OutcomeOnce
  <2>3. ASSUME NEW c \in Calls, NEW a \in {"stop", "restore"}, Kronos!Accept(c, a)
        PROVE  KronosInv'
    <3>1. \A l \in landing : l.call \in admitted
      OBVIOUS
    <3>2. c \notin admitted /\ reply[c] = "none" /\ operation' = c
          /\ admitted' = admitted \cup {c} /\ landing' = landing /\ reply' = reply
      BY <2>3 DEF Kronos!Accept, Kronos!Fresh
    <3>3. Kronos!OutcomeOnce'
      BY <3>1, <3>2 DEF Kronos!OutcomeOnce
    <3>4. landing' \subseteq [call : admitted', res : Outcomes]
      BY <3>2
    <3> QED
      BY <3>2, <3>3, <3>4
  <2>4. CASE Kronos!Unload \/ Kronos!Load \/ Kronos!FallBack
    BY <2>4 DEF Kronos!Unload, Kronos!Load, Kronos!FallBack, Kronos!OutcomeOnce
  <2>5. ASSUME NEW res \in Outcomes, Kronos!Land(res)
        PROVE  KronosInv'
    <3> DEFINE told == [call |-> operation, res |-> res]
    <3>1. landing' = {told} /\ operation' = NoOne /\ operation \in admitted
          /\ admitted' = admitted /\ reply' = reply
      BY <2>5 DEF Kronos!Land
    <3>2. told \in [call : admitted', res : Outcomes] /\ told.call = operation
      BY <3>1
    <3> HIDE DEF told
    <3>3. operation # NoOne
      BY <2>5 DEF Kronos!Land
    <3>4. Kronos!OutcomeOnce'
      BY <3>1, <3>2, <3>3 DEF Kronos!OutcomeOnce
    <3> QED
      BY <3>1, <3>2, <3>4
  <2>6. ASSUME NEW l \in landing, Kronos!Answer(l)
        PROVE  KronosInv'
    <3>1. l.call \in admitted /\ l.res \in Outcomes /\ l.call # operation
      BY DEF Kronos!OutcomeOnce
    <3>2. landing' = {} /\ operation' = operation /\ admitted' = admitted
      BY <2>6 DEF Kronos!Answer
    <3>3. reply' = reply \/ reply' = [reply EXCEPT ![l.call] = l.res]
      BY <2>6 DEF Kronos!Answer
    <3>4. \A c \in Calls : reply'[c] = reply[c] \/ (c = l.call /\ reply'[c] \in Outcomes)
      BY <3>1, <3>3
    <3>5. Kronos!OutcomeOnce'
      BY <3>1, <3>2, <3>4 DEF Kronos!OutcomeOnce
    <3>6. reply' \in [Calls -> Outcomes \cup {"none", "E_BUSY", "E_TIMEOUT"}]
      BY <3>1, <3>3
    <3> QED
      BY <3>2, <3>5, <3>6
  <2>7. CASE UNCHANGED Kronos!contractVars
    BY <2>7 DEF Kronos!contractVars, Kronos!OutcomeOnce
  <2> QED
    BY <2>1, <2>2, <2>3, <2>4, <2>5, <2>6, <2>7 DEF Kronos!ContractNext
<1> QED
  BY <1>1, <1>2, PTL DEF Kronos!ContractSpec

\* Every admitted action has one outcome, told once and never early, whoever gave up
\* waiting and whatever was refused meanwhile (lifecycle.py:191-247).
THEOREM OutcomeIsToldOnce ==
  ASSUME NoOne \notin Calls
  PROVE  Kronos!ContractSpec => []Kronos!OutcomeOnce
<1>1. Kronos!ContractSpec => []KronosInv
  BY KronosInvHolds
<1>2. KronosInv => Kronos!OutcomeOnce
  BY DEF KronosInv
<1> QED
  BY <1>1, <1>2, PTL
===============================================================================
