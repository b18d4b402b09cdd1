------------------------------ MODULE SlotContract ------------------------------
(***************************************************************************)
(* What the GPU slot promises the mining runs                              *)
(* (factor_factory/generators/gpu_slot.py:98-167), without files, records,  *)
(* locks or probes: one run at a time has the card, and it is the run that  *)
(* has waited longest of those that wait.  GpuSlot implements it.           *)
(*                                                                         *)
(* It does not promise that the one in front is alive: a run that was killed *)
(* while it waited keeps its place, and the others leave when they have     *)
(* waited too long.                                                        *)
(***************************************************************************)

CONSTANT Clients

VARIABLES queue,  \* the runs that wait
          ahead,  \* the pairs of them of which the first came before the second
          users   \* the runs that have the card

slotContractVars == <<queue, ahead, users>>

ContractInit ==
  /\ queue = {}
  /\ ahead = {}
  /\ users = {}

\* A newcomer, or one that found the card short of memory, goes behind all.
Join(r) ==
  /\ r \notin queue \cup users
  /\ queue' = queue \cup {r}
  /\ ahead' = ahead \cup (queue \X {r})
  /\ UNCHANGED users

Unqueue(r) ==
  /\ r \in queue
  /\ queue' = queue \ {r}
  /\ ahead' = {p \in ahead : r \notin {p[1], p[2]}}

\* Cancelled, out of time, or on the way to the tail.
Leave(r) == Unqueue(r) /\ UNCHANGED users

Grant(r) ==
  /\ users = {}
  /\ \A q \in queue \ {r} : <<r, q>> \in ahead
  /\ Unqueue(r)
  /\ users' = {r}

\* The run releases the slot or is killed.
Free(r) ==
  /\ r \in users
  /\ users' = users \ {r}
  /\ UNCHANGED <<queue, ahead>>

ContractNext == \E r \in Clients : Join(r) \/ Leave(r) \/ Grant(r) \/ Free(r)

ContractSpec == ContractInit /\ [][ContractNext]_slotContractVars

\* One run at a time has the card, and it does not wait for it any more.
OneUser == \A r, q \in users : r = q /\ r \notin queue

\* Of two that wait one came first, and whoever came before the first came before
\* the second: of those that wait one is in front of all the others.
FirstComeFirst ==
  \A p, q \in queue :
    /\ p # q => (<<p, q>> \in ahead <=> <<q, p>> \notin ahead)
    /\ \A r \in queue : <<p, q>> \in ahead /\ <<q, r>> \in ahead => <<p, r>> \in ahead
===============================================================================
