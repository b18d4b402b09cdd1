----------------------------- MODULE ClaimContract -----------------------------
(***************************************************************************)
(* What the claims promise those who write experiments (evaluation/claim.py *)
(* :1-8), without files, locks or leases: an experiment is claimed by one  *)
(* client at a time, and a claim passes on only when its holder gave it     *)
(* back or has ended.  Claim implements it for one experiment; Cohort, whose *)
(* jobs claim the experiments of a whole population, implements it as well, *)
(* and so relies on nothing that Claim does not provide.                    *)
(*                                                                         *)
(* It does not promise that a claim is ever free: a client may end and leave *)
(* its claim behind.                                                        *)
(***************************************************************************)

CONSTANTS Keys,     \* the experiments
          Clients,  \* each works on one experiment and ends
          Nobody    \* an experiment without a claim

VARIABLES holder,   \* whose claim each experiment carries
          working,  \* the clients at work: they were told that they have it
          over      \* the clients that have ended, one way or another

claimContractVars == <<holder, working, over>>

ContractInit ==
  /\ holder = [k \in Keys |-> Nobody]
  /\ working = {}
  /\ over = {}

\* Nobody's claim, or that of a client that has ended.
Take(k, c) ==
  /\ c \notin working \cup over
  /\ holder[k] # Nobody => holder[k] \in over
  /\ holder' = [holder EXCEPT ![k] = c]
  /\ working' = working \cup {c}
  /\ UNCHANGED over

\* The holder is done and gives its claim back.
GiveBack(k, c) ==
  /\ c \in working
  /\ holder[k] = c
  /\ holder' = [holder EXCEPT ![k] = Nobody]
  /\ working' = working \ {c}
  /\ over' = over \cup {c}

\* A client is refused, fails or dies; a claim it has stays where it is.
End(c) ==
  /\ c \notin over
  /\ working' = working \ {c}
  /\ over' = over \cup {c}
  /\ UNCHANGED holder

\* The claim of a client that has ended is removed.
Lapse(k) ==
  /\ holder[k] \in over
  /\ holder' = [holder EXCEPT ![k] = Nobody]
  /\ UNCHANGED <<working, over>>

ContractNext ==
  \/ \E k \in Keys, c \in Clients : Take(k, c) \/ GiveBack(k, c)
  \/ \E c \in Clients : End(c)
  \/ \E k \in Keys : Lapse(k)

ContractSpec == ContractInit /\ [][ContractNext]_claimContractVars

\* A client at work has the claim of an experiment, so that two at work are at
\* work on different experiments.
WorkersHold == \A c \in working : \E k \in Keys : holder[k] = c
===============================================================================
